---- MODULE Spec2Model ----
(***************************************************************************)
(* Routing and execution engine of the gateway: the target resolver        *)
(* (tryTargetsRecursively), the strategies, the per-target request         *)
(* pipeline (RequestProcessor.process) and the after-request hook loop     *)
(* (recursiveAfterRequestHookHandler).                                     *)
(*                                                                         *)
(* A response is a record [status, gwex, kind, msg, retryAttempt]; gwex is *)
(* the value of the x-portkey-gateway-exception header ("" when the header *)
(* is absent).  Collaborators that are not part of the core (hook runtime, *)
(* cache, validator, provider adapter, response service, upstream, router, *)
(* circuit breaker) answer nondeterministically from small sets, and each  *)
(* of them may throw.  Configuration is read where the code reads it: the  *)
(* fields of a node are drawn when the resolver enters the node.           *)
(*                                                                         *)
(* tryTargetsRecursively ends in a dangling "default:" label left over     *)
(* from a switch on the strategy mode (handlerUtils.ts 425-452).  It is    *)
(* read here as the branch taken when the node is not dispatched to a      *)
(* strategy: a node is either executed by its strategy or handed to        *)
(* tryPost.                                                                *)
(***************************************************************************)
EXTENDS Integers, Sequences, FiniteSets, TLC

\* ---------------------------------------------------------------- bounds
\* largest retry.attempts of a single leaf execution
MaxAttempts == 2
\* largest retry.attempts of a request routed through a target tree
MaxTreeAttempts == 1
\* largest number of children of a node
MaxTargets == 2
\* largest number of nested strategy nodes on a path
MaxDepth == 2

\* ------------------------------------------------------------- constants
HOOKS_FAILED == 446
INTERNAL_SERVER_ERROR == 500
BAD_REQUEST == 400
RETRY_ATTEMPT_EXHAUSTED == -1
DEFAULT_WEIGHT == 1
SINGLE_TARGET_INDEX == 0
SOMETHING_WENT_WRONG == "Something went wrong"
NO_PROVIDER_SELECTED == "No provider selected, please check the weights"
GATEWAY_MESSAGE == "gateway error message"
ROUTER_MESSAGE == "router error message"

\* statuses an upstream provider answers with
UpstreamStatuses == {200, 500, 503}
\* status of a cached response and of a response of the pre-request validator
CachedStatuses == {200}
ValidatorStatuses == {401}
\* retry.onStatusCodes of the leaf
RetryCodeSets == {{}, {503}, {HOOKS_FAILED, 503}}
RetryConfigs == [attempts : 0..MaxAttempts, onStatusCodes : RetryCodeSets]
\* retry configurations of the requests routed through a target tree
TreeRetryConfigs == [attempts : 0..MaxTreeAttempts,
                     onStatusCodes : {{HOOKS_FAILED, 503}}]
\* strategy.mode values (StrategyModes); "" when no mode is set
Modes == {"single", "fallback", "loadbalance", "conditional"}
\* circuit-breaker id of a node; "" when the node declares none
NodeIds == {"", "cb"}
\* weight of a load-balanced child; -1 when the child declares none
Weights == {-1, 0, 1, 2}
\* strategy.onStatusCodes of a child: absent, an array, or a truthy value
\* that is not an array
AbsentCodes == [tag |-> "absent", set |-> {}]
FallbackCodes == {AbsentCodes, [tag |-> "array", set |-> {500}]}
\* errors a collaborator can raise
ErrorKinds == {"GatewayError", "Error"}

VARIABLES
  stack,      \* resolver call stack, one frame per tryTargetsRecursively call
  pc,         \* control point of the request
  resp,       \* response in hand (NoResp when there is none)
  err,        \* error being propagated ("" when none)
  retry,      \* requestContext.retryConfig of the leaf
  brh,        \* outcome of the before-request hooks of the leaf
  made,       \* retryAttemptsMade of the current hook-loop iteration
  attempt,    \* attempt counter of the running retry engine call
  skip,       \* skip flag reported by the last retry engine call
  upstream,   \* status of the last upstream response
  arh,        \* status of the last hook-mapped response (arhResponse.status)
  logs,       \* log records emitted by the current leaf execution, in order
  fetches,    \* upstream calls issued by the current leaf execution
  phases,     \* phases started by the current leaf execution, in order
  emitted,    \* log records emitted by the leaf executions that have ended
  leaves,     \* leaf executions that have ended, by the way they ended
  requestContext, \* what HeaderProcessor and ProviderConfigBuilder read:
                  \* method, endpoint, the client's request headers, ...
  headers,    \* the outgoing headers under construction
  config,     \* the configuration built from the request headers
  fetchOptions \* the RequestInit constructRequest returns

vars == <<stack, pc, resp, err, retry, brh, made, attempt, skip, upstream, arh,
          logs, fetches, phases, emitted, leaves, requestContext, headers,
          config, fetchOptions>>

\* the variables of one leaf execution, and the resolver's own
leafVars == <<brh, made, attempt, skip, upstream, arh, fetches, phases>>
buildVars == <<requestContext, headers, config, fetchOptions>>
treeVars == <<stack, retry, emitted, leaves, buildVars>>

NoResp == [status |-> 0, gwex |-> "", kind |-> "none", msg |-> "",
           retryAttempt |-> 0]

Top == stack[Len(stack)]

\* the request context while no header processing or config building runs
NoContext == [method |-> "", endpoint |-> ""]

\* the error's own message for every error
ErrorMessageVerbatim(e) == IF e = "GatewayError" THEN GATEWAY_MESSAGE ELSE e

\* errorMessage of handleTryPostError / handleTargetRecursionError
ErrorMessage(e) == IF e = "GatewayError" THEN GATEWAY_MESSAGE
                   ELSE SOMETHING_WENT_WRONG

HandleTryPostError(e) ==
  [status |-> INTERNAL_SERVER_ERROR, gwex |-> "true", kind |-> "failure",
   msg |-> ErrorMessage(e), retryAttempt |-> 0]

\* the 500 of the resolver without the gateway-exception header
HandleTargetRecursionErrorNoHeader(e) ==
  [status |-> INTERNAL_SERVER_ERROR, gwex |-> "", kind |-> "failure",
   msg |-> ErrorMessage(e), retryAttempt |-> 0]

HandleTargetRecursionError(e) ==
  [status |-> INTERNAL_SERVER_ERROR, gwex |-> "true", kind |-> "failure",
   msg |-> ErrorMessage(e), retryAttempt |-> 0]

\* handleRouterError: the response for a RouterError, which carries the
\* message of the router's error
HandleRouterError(e) ==
  [status |-> BAD_REQUEST, gwex |-> "", kind |-> "failure",
   msg |-> ROUTER_MESSAGE, retryAttempt |-> 0]

CreateHooksFailureResponse ==
  [status |-> HOOKS_FAILED, gwex |-> "", kind |-> "hooks_failed",
   msg |-> "hooks_failed", retryAttempt |-> 0]

\* logObject.log(): one record, tagged with the leaf that emitted it
LogRecord(kind) == [kind |-> kind, path |-> Top.jsonPath]

\* an error raised inside the try block of process() while it is awaited:
\* the catch of process() shapes it and tryPost returns the 500
Caught(e) ==
  /\ resp' = HandleTryPostError(e)
  /\ pc' = "posted"
  /\ err' = ""

\* an error raised inside a promise that process() returns without awaiting
\* it: the catch of process() is no longer active and tryPost rejects
Rejected(e) ==
  /\ resp' = NoResp
  /\ pc' = "rejected"
  /\ err' = e

\* ------------------------------------------------------------------------
\* RequestProcessor.process, phase by phase
\* ------------------------------------------------------------------------

SetupRequestContext ==
  /\ pc = "setup"
  /\ phases' = Append(phases, "url")
  /\ \/ /\ pc' = "beforeHooks"
        /\ UNCHANGED <<resp, err>>
     \/ \E e \in ErrorKinds : Caught(e)
  /\ UNCHANGED <<treeVars, brh, made, attempt, skip, upstream, arh, logs,
                 fetches>>

\* handleBeforeRequestHooks whose handler lets the error of the hook runtime
\* escape into the catch of process()
HandleBeforeRequestHooksRethrows ==
  /\ pc = "beforeHooks"
  /\ phases' = Append(phases, "beforeHooks")
  /\ \/ /\ brh' = "deny"
        /\ resp' = CreateHooksFailureResponse
        /\ pc' = "early"
     \/ /\ brh' \in {"pass", "transformed"}
        /\ resp' = resp
        /\ pc' = "prepare"
     \/ /\ brh' = "error"
        /\ \E e \in ErrorKinds : Caught(e)
  /\ err' = err
  /\ UNCHANGED <<treeVars, made, attempt, skip, upstream, arh, logs,
                 fetches>>

\* handleBeforeRequestHooks without the early return of process(): a denial is
\* treated like a pass
HandleBeforeRequestHooksNoReturn ==
  /\ pc = "beforeHooks"
  /\ phases' = Append(phases, "beforeHooks")
  /\ brh' \in {"deny", "pass", "transformed", "error"}
  /\ resp' = resp
  /\ pc' = "prepare"
  /\ UNCHANGED <<treeVars, err, made, attempt, skip, upstream, arh, logs,
                 fetches>>

\* handleBeforeRequestHooks -> beforeRequestHookHandler, followed by
\* updateRequestContextFromHooks when no response came back
HandleBeforeRequestHooks ==
  /\ pc = "beforeHooks"
  /\ phases' = Append(phases, "beforeHooks")
  /\ \/ /\ brh' = "deny"
        /\ resp' = CreateHooksFailureResponse
        /\ pc' = "early"
     \/ /\ brh' \in {"pass", "transformed"}
        /\ resp' = resp
        /\ pc' = "prepare"
     \/ \* hooksManager throws: handleBeforeRequestHookError returns {error}
        /\ brh' = "error"
        /\ resp' = resp
        /\ pc' = "prepare"
  /\ UNCHANGED <<treeVars, err, made, attempt, skip, upstream, arh, logs,
                 fetches>>

\* createEarlyResponse; hasRequestHandler decides whether the request is
\* transformed for the log
CreateEarlyResponse ==
  /\ pc = "early"
  /\ \E hasRequestHandler \in BOOLEAN :
       phases' = IF hasRequestHandler THEN phases
                 ELSE Append(phases, "transform")
  /\ \/ /\ resp' = [resp EXCEPT !.retryAttempt = 0]
        /\ logs' = Append(logs, LogRecord("terminal"))
        /\ pc' = "posted"
        /\ err' = err
     \/ /\ \E e \in ErrorKinds : Rejected(e)
        /\ logs' = logs
  /\ UNCHANGED <<treeVars, brh, made, attempt, skip, upstream, arh, fetches>>

PrepareRequest ==
  /\ pc = "prepare"
  /\ \E hasRequestHandler \in BOOLEAN :
       /\ phases' = IF hasRequestHandler THEN phases
                    ELSE Append(phases, "transform")
       /\ \/ /\ pc' = "build"
             /\ UNCHANGED <<resp, err>>
          \/ /\ ~hasRequestHandler
             /\ \E e \in ErrorKinds : Caught(e)
  /\ UNCHANGED <<treeVars, brh, made, attempt, skip, upstream, arh, logs,
                 fetches>>

BuildFetchOptions ==
  /\ pc = "build"
  /\ phases' = Append(phases, "fetchOptions")
  /\ \/ /\ pc' = "cache"
        /\ UNCHANGED <<resp, err>>
     \/ \E e \in ErrorKinds : Caught(e)
  /\ UNCHANGED <<treeVars, brh, made, attempt, skip, upstream, arh, logs,
                 fetches>>

\* handleCaching without the early return of process(): the lookup result is
\* kept but the pipeline goes on to validation
HandleCachingNoReturn ==
  /\ pc = "cache"
  /\ phases' = Append(phases, "cache")
  /\ \/ \E s \in CachedStatuses :
          /\ resp' = [status |-> s, gwex |-> "", kind |-> "cache",
                      msg |-> "", retryAttempt |-> 0]
          /\ pc' = "validate"
          /\ err' = err
     \/ /\ pc' = "validate"
        /\ UNCHANGED <<resp, err>>
     \/ \E e \in ErrorKinds : Caught(e)
  /\ UNCHANGED <<treeVars, brh, made, attempt, skip, upstream, arh, logs,
                 fetches>>

HandleCaching ==
  /\ pc = "cache"
  /\ phases' = Append(phases, "cache")
  /\ \/ \E s \in CachedStatuses :
          /\ resp' = [status |-> s, gwex |-> "", kind |-> "cache",
                      msg |-> "", retryAttempt |-> 0]
          /\ pc' = "cached"
          /\ err' = err
     \/ /\ pc' = "validate"
        /\ UNCHANGED <<resp, err>>
     \/ \E e \in ErrorKinds : Caught(e)
  /\ UNCHANGED <<treeVars, brh, made, attempt, skip, upstream, arh, logs,
                 fetches>>

\* createCachedResponse without its logObject.log()
CreateCachedResponseNoLog ==
  /\ pc = "cached"
  /\ \/ /\ resp' = [resp EXCEPT !.retryAttempt = 0]
        /\ pc' = "posted"
        /\ err' = err
     \/ \E e \in ErrorKinds : Rejected(e)
  /\ logs' = logs
  /\ UNCHANGED <<treeVars, leafVars>>

CreateCachedResponse ==
  /\ pc = "cached"
  /\ \/ /\ resp' = [resp EXCEPT !.retryAttempt = 0]
        /\ logs' = Append(logs, LogRecord("terminal"))
        /\ pc' = "posted"
        /\ err' = err
     \/ /\ \E e \in ErrorKinds : Rejected(e)
        /\ logs' = logs
  /\ UNCHANGED <<treeVars, leafVars>>

\* handlePreRequestValidation without the early return of process(): the
\* validator's response is kept but the main request is executed
HandlePreRequestValidationNoReturn ==
  /\ pc = "validate"
  /\ phases' = Append(phases, "validate")
  /\ \/ \E s \in ValidatorStatuses :
          /\ resp' = [status |-> s, gwex |-> "", kind |-> "validator",
                      msg |-> "", retryAttempt |-> 0]
          /\ pc' = "main"
          /\ err' = err
     \/ /\ pc' = "main"
        /\ UNCHANGED <<resp, err>>
     \/ \E e \in ErrorKinds : Caught(e)
  /\ UNCHANGED <<treeVars, brh, made, attempt, skip, upstream, arh, logs,
                 fetches>>

HandlePreRequestValidation ==
  /\ pc = "validate"
  /\ phases' = Append(phases, "validate")
  /\ \/ \E s \in ValidatorStatuses :
          /\ resp' = [status |-> s, gwex |-> "", kind |-> "validator",
                      msg |-> "", retryAttempt |-> 0]
          /\ pc' = "validation"
          /\ err' = err
     \/ /\ pc' = "main"
        /\ UNCHANGED <<resp, err>>
     \/ \E e \in ErrorKinds : Caught(e)
  /\ UNCHANGED <<treeVars, brh, made, attempt, skip, upstream, arh, logs,
                 fetches>>

\* createValidationResponse without its logObject.log()
CreateValidationResponseNoLog ==
  /\ pc = "validation"
  /\ \/ /\ resp' = [resp EXCEPT !.retryAttempt = 0]
        /\ pc' = "posted"
        /\ err' = err
     \/ \E e \in ErrorKinds : Rejected(e)
  /\ logs' = logs
  /\ UNCHANGED <<treeVars, leafVars>>

CreateValidationResponse ==
  /\ pc = "validation"
  /\ \/ /\ resp' = [resp EXCEPT !.retryAttempt = 0]
        /\ logs' = Append(logs, LogRecord("terminal"))
        /\ pc' = "posted"
        /\ err' = err
     \/ /\ \E e \in ErrorKinds : Rejected(e)
        /\ logs' = logs
  /\ UNCHANGED <<treeVars, leafVars>>

\* executeMainRequest, up to its call of recursiveAfterRequestHookHandler
\* with retryAttemptsMade = 0
ExecuteMainRequest ==
  /\ pc = "main"
  /\ made' = 0
  /\ attempt' = 0
  /\ pc' = "engine"
  /\ UNCHANGED <<treeVars, resp, err, brh, skip, upstream, arh, logs, fetches,
                 phases>>

\* retryRequest(url, options, retry.attempts, retry.onStatusCodes, ...):
\* one upstream call of the engine.  The engine calls again while the status
\* is retriable and fewer than maxAttempts retries were made, unless it
\* decides to skip; it reports the number of retries it made.
RetryRequest ==
  /\ pc = "engine"
  /\ phases' = Append(phases, "fetch")
  /\ fetches' = fetches + 1
  /\ \E s \in UpstreamStatuses, sk \in BOOLEAN :
       IF s \in retry.onStatusCodes /\ attempt < retry.attempts /\ ~sk
       THEN /\ attempt' = attempt + 1
            /\ pc' = "engine"
            /\ UNCHANGED <<upstream, skip>>
       ELSE /\ upstream' = s
            /\ skip' = sk
            /\ pc' = "afterHooks"
            /\ attempt' = attempt
  /\ UNCHANGED <<treeVars, resp, err, brh, made, arh, logs>>

\* lastAttempt without the exhausted sentinel for a retriable last status
LastAttemptNoSentinel(retryCount, retryAttemptsMade, attempts, isRetriable, retrySkipped) ==
  IF retrySkipped
  THEN RETRY_ATTEMPT_EXHAUSTED
  ELSE retryCount + retryAttemptsMade

\* lastAttempt of recursiveAfterRequestHookHandler
LastAttempt(retryCount, retryAttemptsMade, attempts, isRetriable, retrySkipped) ==
  IF (retryCount + retryAttemptsMade = attempts /\ isRetriable) \/ retrySkipped
  THEN RETRY_ATTEMPT_EXHAUSTED
  ELSE retryCount + retryAttemptsMade

\* the condition of the hook loop without the test of the remaining retries
ShouldRetryAnyRemaining(remainingRetryCount, retrySkipped, isRetriableStatusCode) ==
  ~retrySkipped /\ isRetriableStatusCode

\* the condition on which recursiveAfterRequestHookHandler logs and recurses
ShouldRetry(remainingRetryCount, retrySkipped, isRetriableStatusCode) ==
  remainingRetryCount > 0 /\ ~retrySkipped /\ isRetriableStatusCode

\* recursiveAfterRequestHookHandler after the engine returned: response
\* handler, after-request hooks, then either log and recurse or return
RecursiveAfterRequestHookHandler ==
  /\ pc = "afterHooks"
  /\ phases' = Append(phases, "afterHooks")
  /\ \/ \E a \in {upstream, HOOKS_FAILED} :
          LET remainingRetryCount == retry.attempts - attempt - made
              isRetriableStatusCode == a \in retry.onStatusCodes
          IN /\ arh' = a
             /\ IF ShouldRetry(remainingRetryCount, skip, isRetriableStatusCode)
                THEN /\ logs' = Append(logs, LogRecord("intermediate"))
                     /\ made' = attempt + 1 + made
                     /\ attempt' = 0
                     /\ pc' = "engine"
                     /\ UNCHANGED <<resp, err>>
                ELSE /\ resp' = [status |-> a, gwex |-> "",
                                 kind |-> "upstream", msg |-> "",
                                 retryAttempt |->
                                   LastAttempt(attempt, made, retry.attempts,
                                               isRetriableStatusCode, skip)]
                     /\ pc' = "mainResponse"
                     /\ UNCHANGED <<logs, made, attempt, err>>
     \/ \* responseHandler or afterRequestHookHandler throws
        /\ \E e \in ErrorKinds : Rejected(e)
        /\ UNCHANGED <<arh, logs, made, attempt>>
  /\ UNCHANGED <<treeVars, brh, skip, upstream, fetches>>

\* executeMainRequest after the hook loop returned
ExecuteMainRequestResponse ==
  /\ pc = "mainResponse"
  /\ \/ /\ logs' = Append(logs, LogRecord("terminal"))
        /\ pc' = "posted"
        /\ UNCHANGED <<resp, err>>
     \/ /\ \E e \in ErrorKinds : Rejected(e)
        /\ logs' = logs
  /\ UNCHANGED <<treeVars, leafVars>>

Process ==
  \/ SetupRequestContext
  \/ HandleBeforeRequestHooks
  \/ CreateEarlyResponse
  \/ PrepareRequest
  \/ BuildFetchOptions
  \/ HandleCaching
  \/ CreateCachedResponse
  \/ HandlePreRequestValidation
  \/ CreateValidationResponse
  \/ ExecuteMainRequest
  \/ RetryRequest
  \/ RecursiveAfterRequestHookHandler
  \/ ExecuteMainRequestResponse

\* ------------------------------------------------------------------------
\* tryTargetsRecursively and the strategies
\* ------------------------------------------------------------------------

\* the fields of a target node that tryTargetsRecursively and the strategies
\* read, for a node that is given in full: strategy.mode, the number of
\* children (-1 when targets is undefined), the node's own id, whether the
\* node declares default guardrails, the children marked isOpen, the declared
\* weight of each child, and the draw of Math.random() scaled to the total
\* weight.  A node whose fields are read as they are needed carries NoNode.
NoNode == [mode |-> "", n |-> -2, ownId |-> "", hasDefaults |-> TRUE,
           open |-> {}, weights |-> <<>>, draw |-> 0]

\* one call of tryTargetsRecursively: the jsonPath it was given, the authored
\* positions that lead to its node, whether inheritedConfig is {}, the
\* inherited id; then what the call computed (merged id, strategy mode,
\* children handed to the strategy) and how far its strategy has come: the
\* children tried, and for a fallback the index of the next child, the
\* verdict of shouldStopFallback on each response, and the onStatusCodes and
\* response of the child that returned last
Frame(path, origin, empty, inhId) ==
  [jsonPath |-> path, origin |-> origin, empty |-> empty, inhId |-> inhId,
   id |-> "", mode |-> "", targets |-> <<>>, idx |-> 0, tried |-> <<>>,
   stops |-> <<>>, codes |-> AbsentCodes, last |-> NoResp,
   authored |-> NoNode, onStatusCodes |-> AbsentCodes]

\* the authored children of a node: position, isOpen mark; originalIndex is
\* -1 until the circuit-breaker filter stamps it
Children(n, open) ==
  [i \in 1..n |-> [pos |-> i - 1, isOpen |-> i \in open, originalIndex |-> -1]]

\* (currentTarget.targets || []).map(stamp originalIndex).filter(!isOpen)
HealthyTargets(targets) ==
  SelectSeq([i \in 1..Len(targets) |->
               [targets[i] EXCEPT !.originalIndex = i - 1]],
            LAMBDA t : ~t.isOpen)

\* the circuit-breaker filter applied without the test of the id
FilteredTargetsAnyId(id, targets) ==
  IF Len(HealthyTargets(targets)) > 0
  THEN HealthyTargets(targets)
  ELSE targets

\* currentTarget.targets after the circuit-breaker filter
FilteredTargets(id, targets) ==
  IF id # "" /\ Len(HealthyTargets(targets)) > 0
  THEN HealthyTargets(targets)
  ELSE targets

\* the index in the list handed to the strategy, whatever the stamp
OriginalIndexUnused(target, index) == index

\* target.originalIndex || index
OriginalIndex(target, index) ==
  IF target.originalIndex \notin {-1, 0} THEN target.originalIndex ELSE index

\* strategy.tryTarget: tryTargetsRecursively on child `target` with the
\* parent's merged inherited config
TryTarget(f, target, index) ==
  Frame(Append(f.jsonPath, OriginalIndex(target, index)),
        Append(f.origin, target.pos), FALSE, f.id)

\* tryTargetsRecursively up to the dispatch: merge of the inherited config,
\* default guardrails, circuit-breaker filter, then strategy or leaf
Resolve(mode, n, ownId, hasDefaults, open) ==
  LET f == Top
      id == IF f.inhId # "" THEN f.inhId ELSE ownId
      targets == FilteredTargets(id, Children(n, open))
      isStrategy == mode # "" /\ n >= 0
  IN /\ IF f.empty /\ ~hasDefaults
        THEN \* [...undefined] at lines 374-379, outside any try
             /\ pc' = "thrown"
             /\ err' = "TypeError"
             /\ stack' = stack
        ELSE IF isStrategy
        THEN /\ pc' = "strategy"
             /\ err' = err
             /\ stack' = [stack EXCEPT ![Len(stack)] =
                            [f EXCEPT !.id = id, !.mode = mode,
                                      !.targets = targets]]
        ELSE /\ pc' = "setup"
             /\ err' = err
             /\ stack' = [stack EXCEPT ![Len(stack)] =
                            [f EXCEPT !.id = id]]
     /\ UNCHANGED <<resp, retry, leafVars, logs, emitted, leaves, buildVars>>

\* a call of tryTargetsRecursively on a node whose fields are read as they
\* are needed.  A child always inherits default guardrails (the root call
\* fails without them); of the configurations that behave alike one is kept:
\* a node under an inherited id declares no id of its own, and children are
\* marked isOpen only where an id makes the mark count.
TryTargetsRecursively ==
  /\ pc = "resolve"
  /\ Top.authored = NoNode
  /\ \E mode \in Modes \cup {""}, n \in -1..MaxTargets, ownId \in NodeIds,
        hasDefaults \in BOOLEAN :
       \E open \in SUBSET (1..n) :
         /\ Len(stack) > MaxDepth => ~(mode # "" /\ n >= 0)
         /\ ~Top.empty => hasDefaults
         /\ Top.inhId # "" => ownId = ""
         /\ (Top.inhId = "" /\ ownId = "") => open = {}
         /\ Resolve(mode, n, ownId, hasDefaults, open)

\* the catch of tryTargetsRecursively around strategy.execute, for an error
\* that is not a RouterError
StrategyFailed(e) ==
  /\ resp' = HandleTargetRecursionError(e)
  /\ pc' = "returned"
  /\ stack' = stack

Invoke(f, target, index) ==
  /\ stack' = Append([stack EXCEPT ![Len(stack)] = f],
                     TryTarget(f, target, index))
  /\ pc' = "resolve"
  /\ resp' = NoResp

\* SingleStrategy.execute trying any of the targets it was given
SingleStrategyAnyTarget ==
  /\ pc = "strategy"
  /\ Top.mode = "single"
  /\ IF Len(Top.targets) = 0
     THEN StrategyFailed("Error")
     ELSE \E index \in 0..(Len(Top.targets) - 1) :
            Invoke([Top EXCEPT !.tried = <<index>>],
                   Top.targets[index + 1], index)
  /\ UNCHANGED <<err, retry, leafVars, logs, emitted, leaves, buildVars>>

SingleStrategy ==
  /\ pc = "strategy"
  /\ Top.mode = "single"
  /\ IF Len(Top.targets) = 0
     THEN StrategyFailed("Error")
     ELSE Invoke([Top EXCEPT !.tried = <<SINGLE_TARGET_INDEX>>],
                 Top.targets[SINGLE_TARGET_INDEX + 1], SINGLE_TARGET_INDEX)
  /\ UNCHANGED <<err, retry, leafVars, logs, emitted, leaves, buildVars>>

\* response.ok
Ok(response) == response.status >= 200 /\ response.status <= 299

\* shouldStopFallback in which a listed status outranks the gateway-exception
\* header
ShouldStopFallbackListedFirst(response, codes) ==
  \/ codes.tag = "array" /\ response.status \notin codes.set
  \/ codes.tag = "absent" /\ Ok(response)
  \/ /\ response.gwex = "true"
     /\ ~(codes.tag = "array" /\ response.status \in codes.set)

\* FallbackStrategy.shouldStopFallback(response, target.strategy)
ShouldStopFallback(response, codes) ==
  \/ codes.tag = "array" /\ response.status \notin codes.set
  \/ codes.tag = "absent" /\ Ok(response)
  \/ response.gwex = "true"

\* the onStatusCodes of the fallback node's own strategy
OnStatusCodesOfNode(f, codes) == f.onStatusCodes

\* target.strategy?.onStatusCodes as handed to shouldStopFallback: `codes`,
\* those of the child that returned, not those of the fallback node f
OnStatusCodesConsulted(f, codes) == codes

\* the for loop of FallbackStrategy.execute without its break
FallbackContinuesNoBreak(f) ==
  f.idx < Len(f.targets)

\* the for loop of FallbackStrategy.execute: the next child is tried unless
\* the loop was left by break or ran out of children
FallbackContinues(f) ==
  /\ f.idx < Len(f.targets)
  /\ (f.stops = <<>> \/ ~f.stops[Len(f.stops)])

FallbackStrategy ==
  /\ \/ pc = "strategy"
     \/ pc = "fallbackLoop"
  /\ Top.mode = "fallback"
  /\ IF FallbackContinues(Top)
     THEN Invoke([Top EXCEPT !.tried = Append(@, Top.idx),
                             !.codes = AbsentCodes, !.last = NoResp],
                 Top.targets[Top.idx + 1], Top.idx)
     ELSE IF Top.tried = <<>>
     THEN StrategyFailed("Error")
     ELSE /\ pc' = "returned"
          /\ UNCHANGED <<stack, resp>>
  /\ UNCHANGED <<err, retry, leafVars, logs, emitted, leaves, buildVars>>

\* the child of a fallback node returned: shouldStopFallback on its response
\* and its own strategy.onStatusCodes
FallbackReturn ==
  /\ pc = "returned"
  /\ Len(stack) > 1
  /\ stack[Len(stack) - 1].mode = "fallback"
  /\ \E codes \in FallbackCodes :
       LET f == stack[Len(stack) - 1]
       IN stack' = [SubSeq(stack, 1, Len(stack) - 1) EXCEPT ![Len(stack) - 1] =
                      [f EXCEPT !.idx = @ + 1,
                                !.codes = codes,
                                !.last = resp,
                                !.stops = Append(@,
                                  ShouldStopFallback(
                                    resp, OnStatusCodesConsulted(f, codes)))]]
  /\ pc' = "fallbackLoop"
  /\ UNCHANGED <<resp, err, retry, leafVars, logs, emitted, leaves, buildVars>>

\* assignDefaultWeights
AssignDefaultWeights(weights) ==
  [i \in 1..Len(weights) |->
     IF weights[i] = -1 THEN DEFAULT_WEIGHT ELSE weights[i]]

RECURSIVE TotalWeight(_)
TotalWeight(weights) ==
  IF weights = <<>> THEN 0 ELSE Head(weights) + TotalWeight(Tail(weights))

\* the selection loop with <= in place of <
RECURSIVE SelectTargetByWeightInclusive(_, _, _)
SelectTargetByWeightInclusive(weights, randomWeight, index) ==
  IF index >= Len(weights) THEN Len(weights) - 1
  ELSE IF randomWeight <= weights[index + 1] THEN index
  ELSE SelectTargetByWeightInclusive(weights,
                                     randomWeight - weights[index + 1],
                                     index + 1)

\* the selection loop of selectTargetByWeight; the index (from 0) of the
\* selected child, the last child when the loop selects none
RECURSIVE SelectTargetByWeight(_, _, _)
SelectTargetByWeight(weights, randomWeight, index) ==
  IF index >= Len(weights) THEN Len(weights) - 1
  ELSE IF randomWeight < weights[index + 1] THEN index
  ELSE SelectTargetByWeight(weights, randomWeight - weights[index + 1],
                            index + 1)

\* LoadBalanceStrategy.execute on children with the declared weights, for the
\* draw randomWeight of [0, totalWeight)
LoadBalance(declared, randomWeight) ==
  LET weights == AssignDefaultWeights(declared)
      totalWeight == TotalWeight(weights)
  IN /\ IF totalWeight = 0
        THEN StrategyFailed("Error")
        ELSE /\ randomWeight < totalWeight
             /\ LET index == SelectTargetByWeight(weights, randomWeight, 0)
                IN Invoke([Top EXCEPT !.tried = <<index>>],
                          Top.targets[index + 1], index)
     /\ UNCHANGED <<err, retry, leafVars, logs, emitted, leaves, buildVars>>

LoadBalanceStrategy ==
  /\ pc = "strategy"
  /\ Top.mode = "loadbalance"
  /\ Top.authored = NoNode
  /\ \E declared \in [1..Len(Top.targets) -> Weights] :
       \E randomWeight \in 0..(TotalWeight(AssignDefaultWeights(declared)) - 1)
                            \cup {0} :
         LoadBalance(declared, randomWeight)

\* ConditionalStrategy.execute: the router selects one of the children it was
\* given and returns it with its index, or raises; a raise becomes a
\* RouterError
ConditionalStrategy ==
  /\ pc = "strategy"
  /\ Top.mode = "conditional"
  /\ \/ /\ pc' = "thrown"
        /\ err' = "RouterError"
        /\ UNCHANGED <<stack, resp>>
     \/ /\ \E index \in 0..(Len(Top.targets) - 1) :
             Invoke([Top EXCEPT !.tried = <<index>>],
                    Top.targets[index + 1], index)
        /\ err' = err
  /\ UNCHANGED <<retry, leafVars, logs, emitted, leaves, buildVars>>

\* the child of a single, loadbalance or conditional node returned: the
\* strategy, and with it the node, returns the child's response; the root
\* returns to the caller
StrategyReturn ==
  /\ pc = "returned"
  /\ IF Len(stack) = 1
     THEN /\ pc' = "done"
          /\ stack' = stack
     ELSE /\ stack[Len(stack) - 1].mode # "fallback"
          /\ pc' = "returned"
          /\ stack' = SubSeq(stack, 1, Len(stack) - 1)
  /\ UNCHANGED <<resp, err, retry, leafVars, logs, emitted, leaves, buildVars>>

\* the catch around strategy.execute without the test of error.name: every
\* error of a child is turned into a 500
PropagateNoRethrow ==
  /\ pc = "thrown"
  /\ IF Len(stack) = 1
     THEN /\ pc' = "failed"
          /\ stack' = stack
          /\ UNCHANGED <<resp, err>>
     ELSE /\ stack' = SubSeq(stack, 1, Len(stack) - 1)
          /\ pc' = "returned"
          /\ resp' = HandleTargetRecursionError(err)
          /\ err' = ""
  /\ UNCHANGED <<retry, leafVars, logs, emitted, leaves, buildVars>>

\* an error leaves a call of tryTargetsRecursively: a RouterError is
\* rethrown by every enclosing call, up to the caller
Propagate ==
  /\ pc = "thrown"
  /\ IF Len(stack) = 1
     THEN /\ pc' = "failed"
          /\ stack' = stack
          /\ UNCHANGED <<resp, err>>
     ELSE /\ stack' = SubSeq(stack, 1, Len(stack) - 1)
          /\ IF err = "RouterError"
             THEN /\ pc' = "thrown"
                  /\ UNCHANGED <<resp, err>>
             ELSE /\ pc' = "returned"
                  /\ resp' = HandleTargetRecursionError(err)
                  /\ err' = ""
  /\ UNCHANGED <<retry, leafVars, logs, emitted, leaves, buildVars>>

\* the caller of the root call catches the RouterError and answers with
\* handleRouterError
RouterErrorShaped ==
  /\ pc = "failed"
  /\ err = "RouterError"
  /\ resp' = HandleRouterError(err)
  /\ pc' = "shaped"
  /\ UNCHANGED <<stack, err, retry, leafVars, logs, emitted, leaves, buildVars>>

\* the log records of a leaf execution, counted by kind
Count(records, kind) ==
  Cardinality({i \in 1..Len(records) : records[i].kind = kind})

\* a leaf execution ended: its log records and, when the circuit breaker was
\* notified of its response, the notification are added to what the request
\* emitted; the execution is counted by the way it ended, and as guarded when
\* it ran under a circuit-breaker id
LeafEnded(how, notified) ==
  /\ emitted' = [intermediate |-> emitted.intermediate
                                    + Count(logs, "intermediate"),
                 terminal |-> emitted.terminal + Count(logs, "terminal"),
                 notified |-> emitted.notified + IF notified THEN 1 ELSE 0]
  /\ leaves' = [leaves EXCEPT ![how] = @ + 1,
                              !.guarded = @ + IF Top.id # "" THEN 1 ELSE 0]
  /\ logs' = <<>>
  /\ brh' = "none"
  /\ made' = 0
  /\ attempt' = 0
  /\ skip' = FALSE
  /\ upstream' = 0
  /\ arh' = 0
  /\ fetches' = 0
  /\ phases' = <<>>

\* tryPost returned: handleCircuitBreakerResponse (taken to be registered) is
\* called with the response when an id is inherited; an error of the
\* notification is caught like one of tryPost
TryPostReturned ==
  /\ pc = "posted"
  /\ \/ resp' = resp
     \/ /\ Top.id # ""
        /\ \E e \in ErrorKinds : resp' = HandleTargetRecursionError(e)
  /\ pc' = "returned"
  /\ LeafEnded(IF resp.kind = "failure" THEN "failed" ELSE "outcome",
               Top.id # "")
  /\ UNCHANGED <<stack, err, retry, buildVars>>

\* tryPost rejected: the catch around it shapes the error
TryPostRejected ==
  /\ pc = "rejected"
  /\ resp' = HandleTargetRecursionError(err)
  /\ err' = ""
  /\ pc' = "returned"
  /\ LeafEnded("failed", FALSE)
  /\ UNCHANGED <<stack, retry, buildVars>>

\* ------------------------------------------------------------------------
\* specifications
\* ------------------------------------------------------------------------

Idle ==
  /\ resp = NoResp
  /\ err = ""
  /\ brh = "none"
  /\ made = 0
  /\ attempt = 0
  /\ skip = FALSE
  /\ upstream = 0
  /\ arh = 0
  /\ logs = <<>>
  /\ fetches = 0
  /\ phases = <<>>
  /\ emitted = [intermediate |-> 0, terminal |-> 0, notified |-> 0]
  /\ leaves = [outcome |-> 0, failed |-> 0, guarded |-> 0]
  /\ requestContext = NoContext
  /\ headers = <<>>
  /\ config = <<>>
  /\ fetchOptions = <<>>

\* one request routed through a target tree by tryTargetsRecursively
Init ==
  /\ stack = <<Frame(<<>>, <<>>, TRUE, "")>>
  /\ pc = "resolve"
  /\ retry \in TreeRetryConfigs
  /\ Idle

Next ==
  \/ TryTargetsRecursively
  \/ SingleStrategy
  \/ FallbackStrategy
  \/ FallbackReturn
  \/ LoadBalanceStrategy
  \/ ConditionalStrategy
  \/ StrategyReturn
  \/ Propagate
  \/ RouterErrorShaped
  \/ TryPostReturned
  \/ TryPostRejected
  \/ Process

Spec == Init /\ [][Next]_vars

\* ------------------------------------------------------------------------
\* one call of tryTargetsRecursively on a node given in full, up to the
\* invocation of the first child
\* ------------------------------------------------------------------------

\* the weights declared by the children handed to the strategy
DeclaredWeights(f) ==
  [i \in 1..Len(f.targets) |-> f.authored.weights[f.targets[i].pos + 1]]

\* the draws Math.random() * totalWeight can give for node a under the
\* inherited id (0 stands for the draw that is never used)
Draws(inhId, a) ==
  LET id == IF inhId # "" THEN inhId ELSE a.ownId
      targets == FilteredTargets(id, Children(a.n, a.open))
      declared == [i \in 1..Len(targets) |-> a.weights[targets[i].pos + 1]]
      totalWeight == TotalWeight(AssignDefaultWeights(declared))
  IN IF a.mode = "loadbalance" /\ totalWeight > 0
     THEN 0..(totalWeight - 1)
     ELSE {0}

\* the nodes given in full; weights are declared where they are read
AuthoredNodes ==
  UNION {[mode : {mode}, n : {n}, ownId : NodeIds, hasDefaults : BOOLEAN,
          open : SUBSET (1..n),
          weights : IF mode = "loadbalance" THEN [1..n -> Weights]
                    ELSE {[i \in 1..n |-> -1]},
          draw : 0..(2 * MaxTargets)] :
         mode \in Modes \cup {""}, n \in -1..MaxTargets}

NodeInit ==
  /\ \E a \in AuthoredNodes, inhId \in NodeIds, empty \in BOOLEAN :
       /\ empty => inhId = ""
       /\ ~empty => a.hasDefaults
       /\ a.draw \in Draws(inhId, a)
       /\ stack = <<[Frame(<<>>, <<>>, empty, inhId) EXCEPT !.authored = a]>>
  /\ pc = "resolve"
  /\ retry = [attempts |-> 0, onStatusCodes |-> {}]
  /\ Idle

ResolveAuthored ==
  /\ pc = "resolve"
  /\ Top.authored # NoNode
  /\ Resolve(Top.authored.mode, Top.authored.n, Top.authored.ownId,
             Top.authored.hasDefaults, Top.authored.open)

LoadBalanceAuthored ==
  /\ pc = "strategy"
  /\ Top.mode = "loadbalance"
  /\ Top.authored # NoNode
  /\ LoadBalance(DeclaredWeights(Top), Top.authored.draw)

NodeNext ==
  \/ ResolveAuthored
  \/ SingleStrategy
  \/ FallbackStrategy
  \/ LoadBalanceAuthored
  \/ ConditionalStrategy
  \/ Propagate
  \/ RouterErrorShaped

SpecNode == NodeInit /\ [][NodeNext]_vars

\* ------------------------------------------------------------------------
\* the merge of the inherited config along one path of the target tree
\* (tryTargetsRecursively, lines 226-372)
\* ------------------------------------------------------------------------

\* longest path of nodes, root to leaf, that is merged
MaxPath == 3

\* an optional field: Undefined, or the value it holds
Undefined == <<>>
Some(x) == <<x>>

\* {...o}: the own keys of o, none when o is undefined
Spread(o) == IF o = Undefined THEN <<>> ELSE o[1]

\* [...(a || [])]
SpreadList(a) == IF a = Undefined THEN <<>> ELSE a[1]

\* {...a, ...b}
Assign(a, b) ==
  [k \in DOMAIN a \cup DOMAIN b |-> IF k \in DOMAIN b THEN b[k] ELSE a[k]]

\* the objects with keys among `keys`, every value being v
Objects(keys, v) == {[k \in S |-> v] : S \in SUBSET keys}

\* a target node as authored: scalar fields ("" or -1 or "undefined" when the
\* node does not have them), objects and lists (Undefined when absent); the
\* default guardrails are the empty lists the configuration builder sets
Bare ==
  [id |-> "", customHost |-> "", requestTimeout |-> -1,
   strictOpenAiCompliance |-> "undefined",
   overrideParams |-> Undefined, retry |-> Undefined, cache |-> Undefined,
   forwardHeaders |-> Undefined,
   beforeRequestHooks |-> Undefined, afterRequestHooks |-> Undefined,
   inputGuardrails |-> Undefined, outputGuardrails |-> Undefined,
   inputMutators |-> Undefined, outputMutators |-> Undefined,
   defaultInputGuardrails |-> Some(<<>>),
   defaultOutputGuardrails |-> Some(<<>>)]

\* inheritedConfig = {} of the root call
EmptyInherited ==
  [id |-> "", customHost |-> "", requestTimeout |-> -1,
   strictOpenAiCompliance |-> "undefined",
   overrideParams |-> Undefined, retry |-> Undefined, cache |-> Undefined,
   forwardHeaders |-> Undefined,
   beforeRequestHooks |-> Undefined, afterRequestHooks |-> Undefined,
   defaultInputGuardrails |-> Undefined,
   defaultOutputGuardrails |-> Undefined]

\* the value a node at depth d of the path gives to a field: every node
\* declares values of its own
IdAt(d) == <<"cb1", "cb2", "cb3", "cb4", "cb5">>[d]
HostAt(d) == <<"host1", "host2", "host3", "host4", "host5">>[d]
TimeoutAt(d) == 1000 * d
Item(field, d) == [type |-> "declared", id |-> field, at |-> d]

\* the nodes a path is made of, by the fields they vary: the nodes of one
\* path vary the same group of fields and leave the others out
Groups ==
  {"id", "timeout", "params", "atomic", "forward", "before", "after",
   "defaults"}

Declared(group, d) ==
  CASE group = "id" ->
         {[Bare EXCEPT !.id = i, !.customHost = h] :
            i \in {"", IdAt(d)}, h \in {"", HostAt(d)}}
    [] group = "timeout" ->
         {[Bare EXCEPT !.requestTimeout = t, !.strictOpenAiCompliance = s] :
            t \in {-1, 0, TimeoutAt(d)}, s \in {"undefined", "true", "false"}}
    [] group = "params" ->
         {[Bare EXCEPT !.overrideParams = o] :
            o \in {Undefined}
                  \cup {Some(x) : x \in Objects({"model", "user"}, d)}}
    [] group = "atomic" ->
         {[Bare EXCEPT !.retry = r, !.cache = c] :
            r \in {Undefined}
                  \cup {Some(x) :
                          x \in Objects({"attempts", "onStatusCodes"}, d)},
            c \in {Undefined} \cup {Some(x) : x \in Objects({"mode"}, d)}}
    [] group = "forward" ->
         {[Bare EXCEPT !.forwardHeaders = f] :
            f \in {Undefined, Some(<<>>), Some(<<Item("forwardHeaders", d)>>)}}
    [] group = "before" ->
         {[Bare EXCEPT !.beforeRequestHooks = b, !.inputGuardrails = g,
                       !.inputMutators = m] :
            b \in {Undefined, Some(<<>>),
                   Some(<<Item("beforeRequestHooks", d)>>)},
            g \in {Undefined, Some(<<Item("inputGuardrails", d)>>),
                   Some(<<Item("inputGuardrails", d), Item("second", d)>>)},
            m \in {Undefined, Some(<<Item("inputMutators", d)>>)}}
    [] group = "after" ->
         {[Bare EXCEPT !.afterRequestHooks = b, !.outputGuardrails = g,
                       !.outputMutators = m] :
            b \in {Undefined, Some(<<>>),
                   Some(<<Item("afterRequestHooks", d)>>)},
            g \in {Undefined, Some(<<Item("outputGuardrails", d)>>),
                   Some(<<Item("outputGuardrails", d), Item("second", d)>>)},
            m \in {Undefined, Some(<<Item("outputMutators", d)>>)}}
    [] group = "defaults" ->
         {[Bare EXCEPT !.defaultInputGuardrails = i,
                       !.defaultOutputGuardrails = o] :
            i \in {Undefined, Some(<<>>),
                   Some(<<Item("defaultInputGuardrails", d)>>)},
            o \in {Undefined, Some(<<>>),
                   Some(<<Item("defaultOutputGuardrails", d)>>)}}

\* convertHooksShorthand(hooksArr, type, hookType): one hook object per
\* shorthand, of the given hook type, its id prefixed by the type, its checks
\* made of what the shorthand holds
ConvertHooksShorthand(hooksArr, type, hookType) ==
  [i \in 1..Len(hooksArr) |->
     [type |-> hookType, id |-> type, at |-> hooksArr[i].at,
      checks |-> hooksArr[i].id]]

\* currentTarget.<hooks> = [...(currentTarget.<hooks> || []),
\*                          ...convertHooksShorthand(shorthand, ...)]
AppendShorthand(hooks, shorthand, type, hookType) ==
  IF shorthand # Undefined
  THEN Some(SpreadList(hooks)
            \o ConvertHooksShorthand(shorthand[1], type, hookType))
  ELSE hooks

\* the input mutators expanded before the input guardrails
BeforeRequestHooksMutatorsFirst(t) ==
  AppendShorthand(AppendShorthand(t.beforeRequestHooks, t.inputMutators,
                                  "input", "mutator"),
                  t.inputGuardrails, "input", "guardrail")

\* currentTarget.beforeRequestHooks after lines 296-338
BeforeRequestHooks(t) ==
  AppendShorthand(AppendShorthand(t.beforeRequestHooks, t.inputGuardrails,
                                  "input", "guardrail"),
                  t.inputMutators, "input", "mutator")

\* currentTarget.afterRequestHooks after lines 296-338
AfterRequestHooks(t) ==
  AppendShorthand(AppendShorthand(t.afterRequestHooks, t.outputGuardrails,
                                  "output", "guardrail"),
                  t.outputMutators, "output", "mutator")

\* id: inheritedConfig.id || currentTarget.id
MergedId(inheritedId, currentId) ==
  IF inheritedId # "" THEN inheritedId ELSE currentId

\* retry and cache merged key by key
AtomicMerged(inherited, current) ==
  Some(Assign(Spread(inherited), Spread(current)))

\* currentTarget.retry ? {...currentTarget.retry} : {...inheritedConfig.retry}
\* (and likewise cache)
Atomic(inherited, current) ==
  IF current # Undefined THEN Some(Spread(current))
  ELSE Some(Spread(inherited))

\* a list-valued field: the current node's when it has one, else inherited
ListField(inherited, current) ==
  IF current # Undefined THEN current ELSE inherited

\* default guardrails expanded by every call whose node declares them
DefaultGuardrailsEveryCall(inheritedConfig, declared, inherited, type) ==
  IF declared # Undefined
  THEN Some(ConvertHooksShorthand(declared[1], type, "guardrail"))
  ELSE inherited

\* currentInheritedConfig.default<Input|Output>Guardrails: the inherited
\* list, replaced by the expanded list of the node in the call whose
\* inheritedConfig has no keys
DefaultGuardrails(inheritedConfig, declared, inherited, type) ==
  IF inheritedConfig = EmptyInherited /\ declared # Undefined
  THEN Some(ConvertHooksShorthand(declared[1], type, "guardrail"))
  ELSE inherited

\* currentInheritedConfig of a call with inheritedConfig on node t
CurrentInheritedConfig(inheritedConfig, t) ==
  [id |-> MergedId(inheritedConfig.id, t.id),
   overrideParams |-> Some(Assign(Spread(inheritedConfig.overrideParams),
                                  Spread(t.overrideParams))),
   retry |-> Atomic(inheritedConfig.retry, t.retry),
   cache |-> Atomic(inheritedConfig.cache, t.cache),
   requestTimeout |->
     IF t.requestTimeout > 0 THEN t.requestTimeout
     ELSE IF inheritedConfig.requestTimeout > 0
     THEN inheritedConfig.requestTimeout
     ELSE -1,
   strictOpenAiCompliance |->
     IF t.strictOpenAiCompliance # "undefined" THEN t.strictOpenAiCompliance
     ELSE inheritedConfig.strictOpenAiCompliance,
   forwardHeaders |-> ListField(inheritedConfig.forwardHeaders,
                                t.forwardHeaders),
   customHost |->
     IF t.customHost # "" THEN t.customHost ELSE inheritedConfig.customHost,
   afterRequestHooks |-> ListField(inheritedConfig.afterRequestHooks,
                                   AfterRequestHooks(t)),
   beforeRequestHooks |-> ListField(inheritedConfig.beforeRequestHooks,
                                    BeforeRequestHooks(t)),
   defaultInputGuardrails |->
     DefaultGuardrails(inheritedConfig, t.defaultInputGuardrails,
                       inheritedConfig.defaultInputGuardrails, "input"),
   defaultOutputGuardrails |->
     DefaultGuardrails(inheritedConfig, t.defaultOutputGuardrails,
                       inheritedConfig.defaultOutputGuardrails, "output")]

\* currentTarget after the merge: the node the strategy or tryPost is given
CurrentTarget(inheritedConfig, t) ==
  LET current == CurrentInheritedConfig(inheritedConfig, t)
  IN [t EXCEPT
        !.forwardHeaders = current.forwardHeaders,
        !.customHost = current.customHost,
        !.requestTimeout =
           IF current.requestTimeout > 0 THEN current.requestTimeout ELSE @,
        !.beforeRequestHooks = current.beforeRequestHooks,
        !.afterRequestHooks = current.afterRequestHooks,
        !.overrideParams = current.overrideParams,
        !.retry = current.retry,
        !.cache = current.cache,
        !.defaultInputGuardrails = current.defaultInputGuardrails,
        !.defaultOutputGuardrails = current.defaultOutputGuardrails]

\* one call of tryTargetsRecursively on a path: the group of fields the path
\* varies, the node as authored, the inheritedConfig it was called with, and
\* what the merge computed (NoMerge until it has run)
NoMerge == [id |-> "unmerged"]

MergeFrame(group, node, inheritedConfig) ==
  [group |-> group, node |-> node, inheritedConfig |-> inheritedConfig,
   current |-> NoMerge, target |-> NoMerge]

MergeInit ==
  /\ \E group \in Groups : \E node \in Declared(group, 1) :
       stack = <<MergeFrame(group, node, EmptyInherited)>>
  /\ pc = "merge"
  /\ retry = [attempts |-> 0, onStatusCodes |-> {}]
  /\ Idle

\* lines 226-379 of tryTargetsRecursively; the spread of a default guardrail
\* list that is undefined raises a TypeError
MergeInheritedConfig ==
  /\ pc = "merge"
  /\ LET current == CurrentInheritedConfig(Top.inheritedConfig, Top.node)
     IN IF Undefined \in {current.defaultInputGuardrails,
                          current.defaultOutputGuardrails}
        THEN /\ pc' = "threw"
             /\ err' = "TypeError"
             /\ stack' = stack
        ELSE /\ pc' = "merged"
             /\ err' = err
             /\ stack' = [stack EXCEPT ![Len(stack)] =
                            [Top EXCEPT
                               !.current = current,
                               !.target = CurrentTarget(Top.inheritedConfig,
                                                        Top.node)]]
  /\ UNCHANGED <<resp, retry, leafVars, logs, emitted, leaves, buildVars>>

\* strategy.tryTarget: the call on a child, with currentInheritedConfig
MergeChild ==
  /\ pc = "merged"
  /\ Len(stack) < MaxPath
  /\ \E node \in Declared(Top.group, Len(stack) + 1) :
       stack' = Append(stack, MergeFrame(Top.group, node, Top.current))
  /\ pc' = "merge"
  /\ UNCHANGED <<resp, err, retry, leafVars, logs, emitted, leaves, buildVars>>

MergeNext ==
  \/ MergeInheritedConfig
  \/ MergeChild

SpecMerge == MergeInit /\ [][MergeNext]_vars

\* ------------------------------------------------------------------------
\* HeaderProcessor: the outgoing headers of one leaf request
\* ------------------------------------------------------------------------

\* a header map is a function from header names to values; the value of a
\* key that was assigned undefined
UndefinedValue == "<undefined>"

MULTIPART_FORM_DATA == "multipart/form-data"
FILE_PURPOSE == "x-portkey-file-purpose"

\* String.prototype.toLowerCase on the header names of the model
ToLowerCase(key) ==
  CASE key = "Content-Type" -> "content-type"
    [] key = "X-Custom" -> "x-custom"
    [] key = "Authorization" -> "authorization"
    [] OTHER -> key

\* value?.split(';')[0] on the content types of the model
MediaType(value) ==
  CASE value = "multipart/form-data; boundary=x" -> MULTIPART_FORM_DATA
    [] value = "application/json; charset=utf-8" -> "application/json"
    [] OTHER -> value

\* key.startsWith('x-portkey-')
IsPoweredBy(key) == key \in {FILE_PURPOSE, "x-portkey-provider"}

\* the function with domain `keys` that agrees with h
Restrict(h, keys) == [k \in keys |-> h[k]]

\* getHeadersToIgnore: env CUSTOM_HEADERS_TO_IGNORE, HEADERS_TO_AVOID_CLOUDFLARE
\* and content-length
HeadersToIgnore(customHeadersToIgnore) ==
  customHeadersToIgnore \cup {"expect", "content-length"}

GetBaseHeaders(requestHeaders) ==
  Assign([k \in {"content-type"} |-> "application/json"],
         Restrict(requestHeaders,
                  DOMAIN requestHeaders \cap {"accept-encoding"}))

\* processProviderHeaders: the keys lowercased; of two keys that differ in
\* case only the model has one
ProcessProviderHeaders(providerConfigMappedHeaders) ==
  [k \in {ToLowerCase(key) : key \in DOMAIN providerConfigMappedHeaders} |->
     LET key == CHOOSE key \in DOMAIN providerConfigMappedHeaders :
                  ToLowerCase(key) = k
     IN providerConfigMappedHeaders[key]]

ProcessForwardHeaders(forwardHeaders, requestHeaders) ==
  Restrict(requestHeaders,
           {ToLowerCase(forwardHeaders[i]) : i \in 1..Len(forwardHeaders)}
           \cap DOMAIN requestHeaders)

\* the passthrough of the client's headers whatever the endpoint
ProcessProxyHeadersAnyEndpoint(endpoint, requestHeaders, customHeadersToIgnore) ==
  Restrict(requestHeaders,
           {k \in DOMAIN requestHeaders :
              /\ k \notin HeadersToIgnore(customHeadersToIgnore)
              /\ ~IsPoweredBy(k)})

ProcessProxyHeaders(endpoint, requestHeaders, customHeadersToIgnore) ==
  IF endpoint # "proxy" THEN <<>>
  ELSE Restrict(requestHeaders,
                {k \in DOMAIN requestHeaders :
                   /\ k \notin HeadersToIgnore(customHeadersToIgnore)
                   /\ ~IsPoweredBy(k)})

\* the four sources spread with the provider's headers last
MergeHeadersProviderLast(base, provider, forward, proxy) ==
  Assign(Assign(Assign(base, forward), proxy), provider)

\* {...baseHeaders, ...providerHeaders, ...forwardHeadersMap, ...proxyHeaders}
MergeHeaders(base, provider, forward, proxy) ==
  Assign(Assign(Assign(base, provider), forward), proxy)

\* postProcessHeaders that derives the uploadFile content type from the
\* header map it is given
PostProcessHeadersFromMap(h, ctx) ==
  LET isGetMethod == ctx.method = "GET"
      isMultipartFormData ==
        /\ "content-type" \in DOMAIN h
        /\ MediaType(h["content-type"]) = MULTIPART_FORM_DATA
      deleted == Restrict(h, DOMAIN h \ {"content-type"})
  IN IF ~(isGetMethod \/ isMultipartFormData) THEN h
     ELSE IF ctx.endpoint # "uploadFile" THEN deleted
     ELSE Assign(deleted,
                 [k \in {"Content-Type"} |->
                    IF "content-type" \in DOMAIN h
                    THEN h["content-type"] ELSE UndefinedValue])

\* postProcessHeaders(headers) under the request context ctx
PostProcessHeaders(h, ctx) ==
  LET isGetMethod == ctx.method = "GET"
      isMultipartFormData ==
        /\ "content-type" \in DOMAIN h
        /\ MediaType(h["content-type"]) = MULTIPART_FORM_DATA
      deleted == Restrict(h, DOMAIN h \ {"content-type"})
      contentType ==
        [k \in {"Content-Type"} |->
           IF "content-type" \in DOMAIN ctx.requestHeaders
           THEN ctx.requestHeaders["content-type"] ELSE UndefinedValue]
      filePurpose ==
        Restrict(ctx.requestHeaders,
                 DOMAIN ctx.requestHeaders \cap {FILE_PURPOSE})
  IN IF ~(isGetMethod \/ isMultipartFormData) THEN h
     ELSE IF ctx.endpoint # "uploadFile" THEN deleted
     ELSE Assign(Assign(deleted, contentType), filePurpose)

\* the header maps with keys among those of `values`, a function from the
\* keys to the sets of values they can hold
HeaderMaps(values) ==
  UNION {[S -> UNION {values[k] : k \in S}] \cap
         {h \in [S -> UNION {values[k] : k \in S}] :
            \A k \in S : h[k] \in values[k]} :
         S \in SUBSET DOMAIN values}

\* the headers a client sends, the headers a provider maps, the
\* forwardHeaders of a leaf, and the header maps post-processing is applied to
ClientHeaders ==
  HeaderMaps([k \in {"content-type", "accept-encoding", FILE_PURPOSE,
                     "x-custom", "expect", "content-length"} |->
                CASE k = "content-type" ->
                       {"application/json; charset=utf-8",
                        "multipart/form-data; boundary=x"}
                  [] k = "accept-encoding" -> {"gzip"}
                  [] k = FILE_PURPOSE -> {"batch"}
                  [] k = "x-custom" -> {"client"}
                  [] k = "expect" -> {"100-continue"}
                  [] k = "content-length" -> {"42"}])

ProviderHeaders ==
  HeaderMaps([k \in {"Content-Type", "Authorization", "x-custom"} |->
                CASE k = "Content-Type" -> {MULTIPART_FORM_DATA, "text/plain"}
                  [] k = "Authorization" -> {"Bearer key"}
                  [] k = "x-custom" -> {"provider"}])

AnyHeaders ==
  HeaderMaps([k \in {"content-type", "Content-Type", FILE_PURPOSE} |->
                CASE k = "content-type" ->
                       {"application/json", MULTIPART_FORM_DATA,
                        "multipart/form-data; boundary=x"}
                  [] k = "Content-Type" -> {"text/plain"}
                  [] k = FILE_PURPOSE -> {"fine-tune"}])

\* a leaf request about to build its headers, or a header map about to be
\* post-processed
HeadersInit ==
  /\ stack = <<Frame(<<>>, <<>>, TRUE, "")>>
  /\ retry = [attempts |-> 0, onStatusCodes |-> {}]
  /\ resp = NoResp
  /\ err = ""
  /\ brh = "none"
  /\ made = 0
  /\ attempt = 0
  /\ skip = FALSE
  /\ upstream = 0
  /\ arh = 0
  /\ logs = <<>>
  /\ fetches = 0
  /\ phases = <<>>
  /\ emitted = [intermediate |-> 0, terminal |-> 0, notified |-> 0]
  /\ leaves = [outcome |-> 0, failed |-> 0, guarded |-> 0]
  /\ config = <<>>
  /\ fetchOptions = <<>>
  /\ \E method \in {"GET", "POST"},
        endpoint \in {"chatComplete", "proxy", "uploadFile"},
        requestHeaders \in ClientHeaders :
       \/ /\ pc = "buildFinalHeaders"
          /\ headers = <<>>
          /\ \E provider \in ProviderHeaders,
                forward \in {<<>>, <<"X-Custom">>,
                             <<"accept-encoding", "X-Custom">>} :
               \E custom \in {{}, {"x-custom"}} :
                 requestContext =
                   [method |-> method, endpoint |-> endpoint,
                    requestHeaders |-> requestHeaders,
                    providerConfigMappedHeaders |-> provider,
                    forwardHeaders |-> forward,
                    customHeadersToIgnore |-> custom]
       \/ /\ pc = "given"
          /\ headers \in AnyHeaders
          /\ requestContext =
               [method |-> method, endpoint |-> endpoint,
                requestHeaders |-> requestHeaders,
                providerConfigMappedHeaders |-> <<>>,
                forwardHeaders |-> <<>>,
                customHeadersToIgnore |-> {}]

\* the sources of buildFinalHeaders, in the order they are spread
HeaderSources ==
  <<GetBaseHeaders(requestContext.requestHeaders),
    ProcessProviderHeaders(requestContext.providerConfigMappedHeaders),
    ProcessForwardHeaders(requestContext.forwardHeaders,
                          requestContext.requestHeaders),
    ProcessProxyHeaders(requestContext.endpoint,
                        requestContext.requestHeaders,
                        requestContext.customHeadersToIgnore)>>

\* buildFinalHeaders up to its call of postProcessHeaders
BuildFinalHeaders ==
  /\ pc = "buildFinalHeaders"
  /\ headers' = MergeHeaders(HeaderSources[1], HeaderSources[2],
                             HeaderSources[3], HeaderSources[4])
  /\ pc' = "merged"
  /\ UNCHANGED <<stack, resp, err, retry, leafVars, logs, emitted, leaves,
                 requestContext, config,
                 fetchOptions>>

\* postProcessHeaders, and postProcessHeaders applied to its own result
PostProcess ==
  /\ pc \in {"merged", "given", "postProcessed"}
  /\ headers' = PostProcessHeaders(headers, requestContext)
  /\ pc' = IF pc = "postProcessed" THEN "postProcessedTwice"
           ELSE "postProcessed"
  /\ UNCHANGED <<stack, resp, err, retry, leafVars, logs, emitted, leaves,
                 requestContext, config,
                 fetchOptions>>

HeadersNext ==
  \/ BuildFinalHeaders
  \/ PostProcess

SpecHeaders == HeadersInit /\ [][HeadersNext]_vars

\* ------------------------------------------------------------------------
\* constructRequest: the fetch options of one leaf request
\* ------------------------------------------------------------------------

\* value.startsWith('audio/')
IsAudio(value) == value \in {"audio/mpeg", "audio/wav"}

\* HeaderProcessor.shouldProcessRequestBody; ctx.headerContentType is the
\* provider headers' content type and ctx.requestContentType the client's,
\* as the two lookups hand them
ShouldProcessRequestBody(ctx) ==
  LET isMultiPartRequest ==
        \/ ctx.headerContentType = MULTIPART_FORM_DATA
        \/ /\ ctx.endpoint = "proxy"
           /\ ctx.requestContentType = MULTIPART_FORM_DATA
      isProxyAudio ==
        /\ ctx.endpoint = "proxy"
        /\ IsAudio(ctx.requestContentType)
  IN [isMultiPartRequest |-> isMultiPartRequest,
      isProxyAudio |-> isProxyAudio,
      shouldProcessAsJson |-> /\ ~isMultiPartRequest
                              /\ ~isProxyAudio
                              /\ ctx.requestContentType # UndefinedValue]

\* a body handed to fetch: the value and the shape it is sent in
BodyInit(shape, value) == [as |-> shape, of |-> value]

\* the body construction with the stream test ahead of the multipart test
ConstructRequestBodyStreamFirst(ctx) ==
  LET p == ShouldProcessRequestBody(ctx)
      reqBody == ctx.transformedRequestBody
      body ==
        IF ctx.requestBody = "ReadableStream"
        THEN Some(BodyInit("ReadableStream", ctx.requestBody))
        ELSE IF p.isMultiPartRequest THEN Some(BodyInit("FormData", reqBody))
        ELSE IF p.isProxyAudio THEN Some(BodyInit("ArrayBuffer", reqBody))
        ELSE IF p.shouldProcessAsJson THEN Some(BodyInit("JSON", reqBody))
        ELSE Undefined
  IN IF ctx.method \in {"GET", "DELETE"} THEN Undefined ELSE body

\* constructRequestBody
ConstructRequestBody(ctx) ==
  LET p == ShouldProcessRequestBody(ctx)
      reqBody == ctx.transformedRequestBody
      body ==
        IF p.isMultiPartRequest THEN Some(BodyInit("FormData", reqBody))
        ELSE IF ctx.requestBody = "ReadableStream"
        THEN Some(BodyInit("ReadableStream", ctx.requestBody))
        ELSE IF p.isProxyAudio THEN Some(BodyInit("ArrayBuffer", reqBody))
        ELSE IF p.shouldProcessAsJson THEN Some(BodyInit("JSON", reqBody))
        ELSE Undefined
  IN IF ctx.method \in {"GET", "DELETE"} THEN Undefined ELSE body

\* the headers a client sends with a body, and the bodies
BodyClientHeaders ==
  HeaderMaps([k \in {"content-type", "x-custom"} |->
                CASE k = "content-type" ->
                       {"application/json; charset=utf-8",
                        MULTIPART_FORM_DATA, "audio/mpeg"}
                  [] k = "x-custom" -> {"client"}])
RequestBodies == {"ReadableStream", "FormData", "params"}

\* a leaf request about to construct its fetch options; the content type
\* the client lookup hands is the header's value, whole or without its
\* parameters, and the one the provider lookup hands is the provider's
\* Content-Type or undefined
RequestInit ==
  /\ stack = <<Frame(<<>>, <<>>, TRUE, "")>>
  /\ retry = [attempts |-> 0, onStatusCodes |-> {}]
  /\ resp = NoResp
  /\ err = ""
  /\ brh = "none"
  /\ made = 0
  /\ attempt = 0
  /\ skip = FALSE
  /\ upstream = 0
  /\ arh = 0
  /\ logs = <<>>
  /\ fetches = 0
  /\ phases = <<>>
  /\ emitted = [intermediate |-> 0, terminal |-> 0, notified |-> 0]
  /\ leaves = [outcome |-> 0, failed |-> 0, guarded |-> 0]
  /\ config = <<>>
  /\ headers = <<>>
  /\ fetchOptions = <<>>
  /\ pc = "constructRequest"
  /\ \E method \in {"GET", "POST", "DELETE"},
        endpoint \in {"chatComplete", "proxy", "uploadFile"},
        requestHeaders \in BodyClientHeaders,
        provider \in ProviderHeaders,
        requestBody \in RequestBodies :
       \E requestContentType \in
             IF "content-type" \in DOMAIN requestHeaders
             THEN {requestHeaders["content-type"],
                   MediaType(requestHeaders["content-type"])}
             ELSE {UndefinedValue},
          headerContentType \in
             {UndefinedValue} \cup
               {provider[k] : k \in DOMAIN provider \cap {"Content-Type"}} :
         requestContext =
           [method |-> method, endpoint |-> endpoint,
            requestHeaders |-> requestHeaders,
            providerConfigMappedHeaders |-> provider,
            forwardHeaders |-> <<>>,
            customHeadersToIgnore |-> {},
            requestBody |-> requestBody,
            transformedRequestBody |-> <<"transformed", requestBody>>,
            requestContentType |-> requestContentType,
            headerContentType |-> headerContentType]

\* constructRequest: the final headers, the method, duplex for uploadFile
\* and the body when there is one
ConstructRequest ==
  /\ pc = "constructRequest"
  /\ headers' = PostProcessHeaders(
                  MergeHeaders(HeaderSources[1], HeaderSources[2],
                               HeaderSources[3], HeaderSources[4]),
                  requestContext)
  /\ fetchOptions' =
       [method |-> requestContext.method,
        headers |-> headers',
        duplex |-> IF requestContext.endpoint = "uploadFile"
                   THEN Some("half") ELSE Undefined,
        body |-> ConstructRequestBody(requestContext)]
  /\ pc' = "constructed"
  /\ UNCHANGED <<stack, resp, err, retry, leafVars, logs, emitted, leaves,
                 requestContext, config>>

SpecRequest == RequestInit /\ [][ConstructRequest]_vars

\* ------------------------------------------------------------------------
\* ProviderConfigBuilder: the configuration built from the request headers
\* ------------------------------------------------------------------------

\* a JSON object is the set of its leaves, each a pair of the path of keys
\* that leads to it and its value; arrays without keyed members are leaves

CONFIG_HEADER == "x-portkey-config"
CAMEL_CASE_EXCLUSIONS ==
  {"override_params", "params", "checks", "vertex_service_account_json",
   "vertexServiceAccountJson", "conditions", "input_guardrails",
   "output_guardrails", "default_input_guardrails",
   "default_output_guardrails", "integrationModelDetails", "cb_config"}

\* the camelCase form of the snake_case keys of the model
ToCamelCase(key) ==
  CASE key = "api_key" -> "apiKey"
    [] key = "override_params" -> "overrideParams"
    [] key = "max_tokens" -> "maxTokens"
    [] key = "on_status_codes" -> "onStatusCodes"
    [] key = "default_input_guardrails" -> "defaultInputGuardrails"
    [] key = "default_output_guardrails" -> "defaultOutputGuardrails"
    [] OTHER -> key

\* convertKeysToCamelCase(obj, exclusions): every key is converted except an
\* excluded key and the keys below it, which stay as written
ConvertKeysToCamelCase(obj, exclusions) ==
  {<<[j \in DOMAIN leaf[1] |->
        IF \E i \in 1..j : leaf[1][i] \in exclusions
        THEN leaf[1][j] ELSE ToCamelCase(leaf[1][j])],
     leaf[2]>> : leaf \in obj}

\* !!obj[key]
Truthy(obj, key) ==
  \E leaf \in obj : leaf[1][1] = key /\ leaf[2] \notin {UndefinedValue, ""}

\* obj[key] = value
SetKey(obj, key, value) ==
  {leaf \in obj : leaf[1][1] # key} \cup {<<(<<key>>), value>>}

\* JSON.stringify drops the keys whose value is undefined; JSON.parse
Stringify(obj) == [json |-> {leaf \in obj : leaf[2] # UndefinedValue}]
Parse(text) == text.json

\* requestHeaders['authorization']?.replace('Bearer ', '')
ApiKey(requestHeaders) ==
  IF "authorization" \notin DOMAIN requestHeaders THEN UndefinedValue
  ELSE IF requestHeaders["authorization"] = "Bearer key" THEN "key"
  ELSE requestHeaders["authorization"]

HeaderOr(requestHeaders, key, default) ==
  IF key \in DOMAIN requestHeaders THEN requestHeaders[key] ELSE default

BuildBaseConfig(requestHeaders) ==
  [input_guardrails |->
     HeaderOr(requestHeaders, "x-portkey-default-input-guardrails", "[]"),
   output_guardrails |->
     HeaderOr(requestHeaders, "x-portkey-default-output-guardrails", "[]")]

\* addProviderSpecificConfig for a provider that has no builder of its own
AddProviderSpecificConfig(cfg, requestHeaders) ==
  IF "x-portkey-mistral-fim-completion" \in DOMAIN requestHeaders
  THEN SetKey(cfg, "mistralFimCompletion", requestHeaders["x-portkey-mistral-fim-completion"])
  ELSE cfg

EnhanceConfigWithProviderSpecifics(parsedConfig, requestHeaders) ==
  AddProviderSpecificConfig(
    SetKey(SetKey(parsedConfig, "provider",
                  HeaderOr(requestHeaders, "x-portkey-provider",
                           UndefinedValue)),
           "api_key", ApiKey(requestHeaders)),
    requestHeaders)

\* the config-header path enhancing the parsed object whatever it holds
BuildFromConfigHeaderAlwaysEnhances(requestHeaders, baseConfig) ==
  LET parsedConfigJson ==
        SetKey(SetKey(Parse(requestHeaders[CONFIG_HEADER]),
                      "default_input_guardrails", baseConfig.input_guardrails),
               "default_output_guardrails", baseConfig.output_guardrails)
  IN ConvertKeysToCamelCase(
       EnhanceConfigWithProviderSpecifics(parsedConfigJson, requestHeaders),
       CAMEL_CASE_EXCLUSIONS)

BuildFromConfigHeader(requestHeaders, baseConfig) ==
  LET parsedConfigJson ==
        SetKey(SetKey(Parse(requestHeaders[CONFIG_HEADER]),
                      "default_input_guardrails", baseConfig.input_guardrails),
               "default_output_guardrails", baseConfig.output_guardrails)
  IN ConvertKeysToCamelCase(
       IF ~Truthy(parsedConfigJson, "provider")
          /\ ~Truthy(parsedConfigJson, "targets")
       THEN EnhanceConfigWithProviderSpecifics(parsedConfigJson, requestHeaders)
       ELSE parsedConfigJson,
       CAMEL_CASE_EXCLUSIONS)

BuildFromIndividualHeaders(requestHeaders, baseConfig) ==
  AddProviderSpecificConfig(
    {<<(<<"provider">>),
       HeaderOr(requestHeaders, "x-portkey-provider", UndefinedValue)>>,
     <<(<<"apiKey">>), ApiKey(requestHeaders)>>,
     <<(<<"defaultInputGuardrails">>), baseConfig.input_guardrails>>,
     <<(<<"defaultOutputGuardrails">>), baseConfig.output_guardrails>>},
    requestHeaders)

\* ProviderConfigBuilder.build
Build(requestHeaders) ==
  IF CONFIG_HEADER \in DOMAIN requestHeaders
  THEN BuildFromConfigHeader(requestHeaders, BuildBaseConfig(requestHeaders))
  ELSE BuildFromIndividualHeaders(requestHeaders,
                                  BuildBaseConfig(requestHeaders))

\* the configurations a client writes into x-portkey-config
AuthoredConfigs ==
  {{},
   {<<(<<"provider">>), "mistral-ai">>, <<(<<"api_key">>), "authored">>},
   {<<(<<"provider">>), "">>, <<(<<"api_key">>), "authored">>},
   {<<(<<"provider">>), "mistral-ai">>,
    <<(<<"override_params", "max_tokens">>), "1">>},
   {<<(<<"retry", "attempts">>), "2">>,
    <<(<<"retry", "on_status_codes">>), "[429]">>},
   {<<(<<"strategy", "mode">>), "fallback">>,
    <<(<<"targets", "0", "api_key">>), "first">>,
    <<(<<"targets", "1", "override_params", "max_tokens">>), "1">>}}

\* the headers of a request, without x-portkey-config
IndividualHeaders ==
  HeaderMaps([k \in {"x-portkey-provider", "authorization",
                     "x-portkey-default-input-guardrails",
                     "x-portkey-default-output-guardrails",
                     "x-portkey-mistral-fim-completion"} |->
                CASE k = "x-portkey-provider" -> {"mistral-ai"}
                  [] k = "authorization" -> {"Bearer key"}
                  [] k = "x-portkey-default-input-guardrails" -> {"[g1]"}
                  [] k = "x-portkey-default-output-guardrails" -> {"[g2]"}
                  [] k = "x-portkey-mistral-fim-completion" -> {"true"}])

ConfigInit ==
  /\ stack = <<Frame(<<>>, <<>>, TRUE, "")>>
  /\ retry = [attempts |-> 0, onStatusCodes |-> {}]
  /\ resp = NoResp
  /\ err = ""
  /\ brh = "none"
  /\ made = 0
  /\ attempt = 0
  /\ skip = FALSE
  /\ upstream = 0
  /\ arh = 0
  /\ logs = <<>>
  /\ fetches = 0
  /\ phases = <<>>
  /\ emitted = [intermediate |-> 0, terminal |-> 0, notified |-> 0]
  /\ leaves = [outcome |-> 0, failed |-> 0, guarded |-> 0]
  /\ headers = <<>>
  /\ fetchOptions = <<>>
  /\ config = {}
  /\ pc = "buildConfig"
  /\ \E individual \in IndividualHeaders :
       \/ requestContext = [requestHeaders |-> individual]
       \/ \E authored \in AuthoredConfigs :
            requestContext =
              [requestHeaders |->
                 Assign(individual,
                        [k \in {CONFIG_HEADER} |-> Stringify(authored)])]

\* the request's configuration is built from its headers
BuildConfig ==
  /\ pc = "buildConfig"
  /\ config' = Build(requestContext.requestHeaders)
  /\ pc' = "built"
  /\ UNCHANGED <<stack, resp, err, retry, leafVars, logs, emitted, leaves,
                 requestContext, headers, fetchOptions>>

\* the configuration is serialized into x-portkey-config of a request that
\* has the same default-guardrail headers, with or without the other
\* headers, and built again
RebuildConfig ==
  /\ pc = "built"
  /\ \E kept \in {{"x-portkey-default-input-guardrails",
                   "x-portkey-default-output-guardrails"},
                  DOMAIN requestContext.requestHeaders} :
       LET requestHeaders ==
             Assign(Restrict(requestContext.requestHeaders,
                             (kept \cap DOMAIN requestContext.requestHeaders)
                               \ {CONFIG_HEADER}),
                    [k \in {CONFIG_HEADER} |-> Stringify(config)])
       IN /\ requestContext' = [requestHeaders |-> requestHeaders]
          /\ config' = Build(requestHeaders)
  /\ pc' = "rebuilt"
  /\ UNCHANGED <<stack, resp, err, retry, leafVars, logs, emitted, leaves,
                 headers, fetchOptions>>

ConfigNext ==
  \/ BuildConfig
  \/ RebuildConfig

SpecConfig == ConfigInit /\ [][ConfigNext]_vars

\* shouldStopFallback applied to one response and one child strategy, in a
\* fallback node with an onStatusCodes of its own
StopStatuses == {199, 200, 299, 300, HOOKS_FAILED, 500}
StopHeaders == {"", "true", "false"}
StopCodes == {AbsentCodes, [tag |-> "other", set |-> {}]}
             \cup {[tag |-> "array", set |-> c] : c \in SUBSET {200, 500}}

StopInit ==
  /\ \E codes \in StopCodes, own \in StopCodes :
       stack = <<[Frame(<<>>, <<>>, TRUE, "") EXCEPT !.mode = "fallback",
                                                    !.codes = codes,
                                                    !.onStatusCodes = own]>>
  /\ pc = "shouldStop"
  /\ retry = [attempts |-> 0, onStatusCodes |-> {}]
  /\ \E status \in StopStatuses, header \in StopHeaders :
       resp = [NoResp EXCEPT !.status = status, !.gwex = header,
                             !.kind = "upstream"]
  /\ err = ""
  /\ brh = "none"
  /\ made = 0
  /\ attempt = 0
  /\ skip = FALSE
  /\ upstream = 0
  /\ arh = 0
  /\ logs = <<>>
  /\ fetches = 0
  /\ phases = <<>>
  /\ emitted = [intermediate |-> 0, terminal |-> 0, notified |-> 0]
  /\ leaves = [outcome |-> 0, failed |-> 0, guarded |-> 0]
  /\ requestContext = NoContext
  /\ headers = <<>>
  /\ config = <<>>
  /\ fetchOptions = <<>>

ShouldStop ==
  /\ pc = "shouldStop"
  /\ pc' = "stopDecided"
  /\ stack' = [stack EXCEPT ![1].stops =
                 <<ShouldStopFallback(
                     resp, OnStatusCodesConsulted(stack[1], stack[1].codes))>>]
  /\ UNCHANGED <<resp, err, retry, leafVars, logs, emitted, leaves, buildVars>>

SpecStop == StopInit /\ [][ShouldStop]_vars

\* one leaf execution: tryPost on a single provider
LeafInit ==
  /\ stack = <<Frame(<<>>, <<>>, TRUE, "")>>
  /\ pc = "setup"
  /\ retry \in RetryConfigs
  /\ Idle

SpecLeaf == LeafInit /\ [][Process]_vars

\* the same execution when every awaited step of it eventually completes
SpecLeafFair == LeafInit /\ [][Process]_vars /\ WF_vars(Process)

\* ------------------------------------------------------------------------
\* properties of one leaf execution (SpecLeaf)
\* ------------------------------------------------------------------------

Phases == {phases[i] : i \in 1..Len(phases)}

\* the leaf execution returned a response built by one of the four terminal
\* outcomes of process(): before-hook denial, cache hit, validation block,
\* main path
FourOutcomes == {"hooks_failed", "cache", "validator", "upstream"}
Returned == pc = "posted" /\ resp.kind \in FourOutcomes

\* scenario S5 at its end: retry.attempts = 2, onStatusCodes = [503], the
\* last upstream answer was 503, the hooks left it a 503 and the engine did
\* not skip.  With onStatusCodes = [503] the engine retries, and the hook loop
\* recurses, only on a 503, so every earlier upstream answer was a 503 too.
S5 ==
  /\ retry = [attempts |-> 2, onStatusCodes |-> {503}]
  /\ Returned
  /\ resp.kind = "upstream"
  /\ upstream = 503
  /\ arh = 503
  /\ ~skip

\* C3 as stated: in scenario S5 the leaf execution issues exactly three
\* upstream fetches, returns status 503 with retryCount -1, and emits three
\* log records, two intermediate ones followed by the terminal one.
C3Original ==
  S5 => /\ fetches = 3
        /\ resp.status = 503
        /\ resp.retryAttempt = RETRY_ATTEMPT_EXHAUSTED
        /\ Len(logs) = 3
        /\ logs[1].kind = "intermediate"
        /\ logs[2].kind = "intermediate"
        /\ logs[3].kind = "terminal"

\* C3: in scenario S5 the leaf execution issues exactly three upstream
\* fetches, returns status 503 with retryCount -1, and emits exactly one log
\* record, the terminal one: the three fetches are made by one call of the
\* retry engine, and the hook loop, which is what logs intermediate records,
\* does not recurse.
C3 ==
  S5 => /\ fetches = 3
        /\ resp.status = 503
        /\ resp.retryAttempt = RETRY_ATTEMPT_EXHAUSTED
        /\ made = 0
        /\ Len(logs) = 1
        /\ logs[1].kind = "terminal"

C3Witness == S5 /\ fetches = 3 /\ attempt = 2

\* C4 as stated: over one leaf execution the upstream is called at most
\* retry.attempts + 1 times, also when an after-request hook turns a
\* non-retriable upstream status into a retriable one.
C4Original == fetches <= retry.attempts + 1

\* the hook loop ended and computed the retryCount of the response
Terminated == pc \in {"mainResponse", "posted"} /\ resp.kind = "upstream"

\* C5 as stated: when the hook loop terminates, retryCount is -1 if the last
\* hook-mapped status is in retry.onStatusCodes or the engine reported skip,
\* and attempt + attemptsAlreadyMade otherwise.
C5Original ==
  Terminated =>
    resp.retryAttempt = IF arh \in retry.onStatusCodes \/ skip
                        THEN RETRY_ATTEMPT_EXHAUSTED
                        ELSE attempt + made

\* a step of the hook loop that recurses: the next call of the retry engine
RetryRecursion == pc = "afterHooks" /\ pc' = "engine"

\* what a step may do to the log of the leaf execution: a retry recursion
\* appends one intermediate record and issues no fetch, the return of a
\* response appends the terminal record, every other step leaves the log alone
LogStep ==
  IF RetryRecursion
  THEN /\ logs' = Append(logs, [kind |-> "intermediate", path |-> Top.jsonPath])
       /\ fetches' = fetches
  ELSE \/ logs' = logs
       \/ /\ logs' = Append(logs, [kind |-> "terminal", path |-> Top.jsonPath])
          /\ pc' = "posted"

\* C6: the log of a leaf execution is a run of intermediate records, exactly
\* one per retry recursion of the hook loop and each emitted before the next
\* upstream attempt, followed by exactly one terminal record when the
\* execution returns on one of its four terminal outcomes; nothing is logged
\* after the terminal record.
C6 ==
  /\ [](/\ \A i \in 1..Len(logs) : logs[i].kind = "terminal" => i = Len(logs)
        /\ Returned => logs # <<>> /\ logs[Len(logs)].kind = "terminal"
        /\ Count(logs, "terminal") > 0 => pc = "posted")
  /\ [][LogStep]_vars

C6Witness ==
  /\ Returned
  /\ Len(logs) = 2
  /\ logs[1].kind = "intermediate"
  /\ logs[2].kind = "terminal"

\* C8: once the before-request hooks deny, the leaf execution runs no cache
\* lookup, no validation, no upstream fetch and no after-request hooks, and
\* the response it returns has status 446.
C8 ==
  brh = "deny" =>
    /\ Phases \cap {"cache", "validate", "fetch", "afterHooks"} = {}
    /\ fetches = 0
    /\ pc \in {"early", "posted", "rejected"}
    /\ pc = "posted" => resp.status = HOOKS_FAILED /\ resp.kind = "hooks_failed"

C8Witness == brh = "deny" /\ pc = "posted" /\ resp.status = HOOKS_FAILED

\* the phases that may immediately precede a phase; the provider
\* transformation is skipped for a provider with its own request handler, and
\* a fetch follows a fetch or the after-request hooks on a retry
Predecessors(phase) ==
  CASE phase = "url" -> {}
    [] phase = "beforeHooks" -> {"url"}
    [] phase = "transform" -> {"beforeHooks"}
    [] phase = "fetchOptions" -> {"beforeHooks", "transform"}
    [] phase = "cache" -> {"fetchOptions"}
    [] phase = "validate" -> {"cache"}
    [] phase = "fetch" -> {"validate", "fetch", "afterHooks"}
    [] phase = "afterHooks" -> {"fetch"}

\* C9: the phases of a leaf execution start in the order URL resolution,
\* before-request hooks, provider transformation, fetch options, cache lookup,
\* validation, upstream fetch, after-request hooks, one after the other; an
\* upstream fetch is issued only when the before hooks did not deny and
\* neither the cache nor the validator produced a response.
C9 ==
  /\ phases # <<>> => phases[1] = "url"
  /\ \A i \in 2..Len(phases) : phases[i - 1] \in Predecessors(phases[i])
  /\ pc = "engine" \/ "fetch" \in Phases =>
       /\ brh \in {"pass", "transformed", "error"}
       /\ resp.kind \notin {"hooks_failed", "cache", "validator"}

C9Witness ==
  /\ Returned
  /\ phases = <<"url", "beforeHooks", "transform", "fetchOptions", "cache",
                "validate", "fetch", "afterHooks", "fetch", "afterHooks">>

\* C10: after a cache hit the leaf execution starts no further phase (no
\* validation, no upstream fetch, no after-request hooks), the before-request
\* hooks ran before the lookup, and the response it returns is the cached one
\* with retryAttempt 0 after exactly one log record.
C10 ==
  resp.kind = "cache" =>
    /\ pc \in {"cached", "posted"}
    /\ phases[Len(phases)] = "cache"
    /\ \E i \in 1..Len(phases) : phases[i] = "beforeHooks"
    /\ Phases \cap {"validate", "fetch", "afterHooks"} = {}
    /\ fetches = 0
    /\ pc = "cached" => logs = <<>>
    /\ pc = "posted" =>
         /\ resp.status \in CachedStatuses
         /\ resp.retryAttempt = 0
         /\ Len(logs) = 1
         /\ logs[1].kind = "terminal"

C10Witness == pc = "posted" /\ resp.kind = "cache" /\ brh = "transformed"

\* ------------------------------------------------------------------------
\* properties of shouldStopFallback (SpecStop)
\* ------------------------------------------------------------------------

\* C2: shouldStopFallback answers true exactly when onStatusCodes is an array
\* that does not hold the response status, or onStatusCodes is absent and the
\* status is in 200..299, or the gateway-exception header is "true"; a
\* gateway exception stops the fallback also when its status is listed.
C2 ==
  pc = "stopDecided" =>
    LET codes == stack[1].codes
        listed == codes.tag = "array" /\ resp.status \in codes.set
        stop == stack[1].stops[1]
    IN /\ stop <=> \/ codes.tag = "array" /\ ~listed
                   \/ codes.tag = "absent" /\ resp.status \in 200..299
                   \/ resp.gwex = "true"
       /\ resp.gwex = "true" /\ listed => stop

C2Witness ==
  /\ pc = "stopDecided"
  /\ resp.gwex = "true"
  /\ resp.status = 500
  /\ stack[1].codes = [tag |-> "array", set |-> {500}]
  /\ stack[1].stops = <<TRUE>>

\* ------------------------------------------------------------------------
\* properties of a request routed through a target tree (Spec)
\* ------------------------------------------------------------------------

\* C1: a fallback node invokes its children in list order from the first, the
\* next one only after the previous one returned; it invokes no child after
\* one whose response satisfies shouldStopFallback, and it returns the
\* response of the last child it invoked, which is the first child that
\* satisfied shouldStopFallback or, when none did, the last child of the list.
C1 ==
  /\ \A i \in 1..Len(stack) :
       LET f == stack[i]
       IN f.mode = "fallback" =>
            /\ \A k \in 1..Len(f.tried) : f.tried[k] = k - 1
            /\ Len(f.tried) \in {Len(f.stops), Len(f.stops) + 1}
            /\ i < Len(stack) => Len(f.tried) = Len(f.stops) + 1
            /\ Len(f.tried) <= Len(f.targets)
            /\ \A k \in 1..Len(f.stops) : f.stops[k] => Len(f.tried) = k
  /\ pc = "fallbackLoop" =>
       /\ Top.last = resp
       /\ Top.stops[Len(Top.stops)] = ShouldStopFallback(Top.last, Top.codes)
  /\ pc = "returned" /\ Top.mode = "fallback" /\ Top.tried # <<>> =>
       /\ resp = Top.last
       /\ Len(Top.stops) = Len(Top.tried)
       /\ Top.stops[Len(Top.stops)] \/ Len(Top.tried) = Len(Top.targets)

C1Witness ==
  /\ pc = "returned"
  /\ Top.mode = "fallback"
  /\ Top.stops = <<FALSE, TRUE>>
  /\ Top.tried = <<0, 1>>

\* C7 as stated, for the invocations that return: the invocation ends with one
\* Response, and the log records emitted during it number the intermediate
\* retries plus one.
C7Original ==
  pc = "done" =>
    /\ resp.kind # "none"
    /\ emitted.intermediate + emitted.terminal = emitted.intermediate + 1

\* C7: an invocation of tryTargetsRecursively that returns yields one
\* Response, and one that does not return throws a RouterError or the
\* TypeError of a root call without default guardrails; the terminal log
\* records number the leaf executions that returned on one of their four
\* terminal outcomes (one for each such child tried by a fallback, none for a
\* leaf execution that ended in a caught error), so the log records number the
\* intermediate retries plus those leaf executions.
C7 ==
  /\ emitted.terminal = leaves.outcome
  /\ pc = "done" => resp.kind # "none" /\ Len(stack) = 1
  /\ pc = "failed" => err \in {"RouterError", "TypeError"} /\ Len(stack) = 1

C7Witness ==
  /\ pc = "done"
  /\ emitted.terminal = 2
  /\ emitted.intermediate = 1
  /\ leaves.failed = 1

\* C11 as stated: tryTargetsRecursively raises nothing but a RouterError;
\* every other failure, also one raised while the inherited configuration is
\* merged at a root without default guardrails, ends in a 500 response.
C11Original == pc = "failed" => err = "RouterError"

\* a RouterError is on its way out of the calls of tryTargetsRecursively
RouterErrorThrown == pc = "thrown" /\ err = "RouterError"

\* C12: a RouterError raised by the conditional router leaves every enclosing
\* call of tryTargetsRecursively unchanged, one call at a time, up to the
\* caller of the root call: no call turns it into a response, no enclosing
\* strategy invokes another child or leaf, and the response the caller shapes
\* for it has status 400, the router's message and no gateway-exception header.
C12 ==
  /\ [][RouterErrorThrown =>
          /\ err' = "RouterError"
          /\ resp' = resp
          /\ leaves' = leaves
          /\ IF Len(stack) = 1
             THEN pc' = "failed" /\ stack' = stack
             ELSE pc' = "thrown" /\ stack' = SubSeq(stack, 1, Len(stack) - 1)]_vars
  /\ [](pc = "shaped" =>
          /\ err = "RouterError"
          /\ resp.status = BAD_REQUEST
          /\ resp.kind = "failure"
          /\ resp.msg = ROUTER_MESSAGE
          /\ resp.gwex # "true")

C12Witness ==
  /\ pc = "shaped"
  /\ Top.mode = "fallback"
  /\ Top.tried = <<0>>
  /\ Len(Top.targets) = 2
  /\ resp.status = BAD_REQUEST

\* C13 as stated: tryPost never rejects; an error of any phase of process(),
\* also of the phases whose promise is returned without await, is shaped into
\* the 500 response by the catch of process().
C13Original == pc # "rejected"

\* C14 as stated: every failure response the core constructs, the 500 of a
\* leaf error and the 446 of a hooks denial among them, carries the
\* gateway-exception header "true".
C14Original ==
  resp.kind \in {"failure", "hooks_failed"} => resp.gwex = "true"

\* ------------------------------------------------------------------------
\* properties of one call on a node given in full (SpecNode)
\* ------------------------------------------------------------------------

\* the weight a child counts with: 1 when it declares none
Weight(declared) == IF declared = -1 THEN 1 ELSE declared

\* the summed weight of the first k children handed to the strategy
RECURSIVE Cumulative(_, _)
Cumulative(f, k) ==
  IF k = 0 THEN 0
  ELSE Cumulative(f, k - 1) + Weight(DeclaredWeights(f)[k])

\* the loadbalance node failed without selecting a child
LoadBalanceFailed ==
  /\ pc = "returned"
  /\ Len(stack) = 1
  /\ Top.mode = "loadbalance"
  /\ Top.tried = <<>>

\* C15 as stated: a loadbalance node whose children all have weight 0 returns
\* status 500 with the gateway-exception header and the message "No provider
\* selected, please check the weights", and invokes no child.
C15Original ==
  LoadBalanceFailed /\ Top.targets # <<>> =>
    /\ resp.status = INTERNAL_SERVER_ERROR
    /\ resp.gwex = "true"
    /\ resp.msg = NO_PROVIDER_SELECTED

\* C16: a loadbalance node with total weight > 0 invokes exactly one child for
\* the draw r: the first child whose cumulative weight exceeds r, which is
\* never a child of weight 0 and never the last child taken by default; it
\* fails without a child only when the total weight is 0.
C16 ==
  /\ Len(stack) = 2 /\ stack[1].mode = "loadbalance" =>
       LET f == stack[1]
           i == f.tried[1]
           r == f.authored.draw
       IN /\ Len(f.tried) = 1
          /\ i \in 0..(Len(f.targets) - 1)
          /\ Cumulative(f, i) <= r
          /\ r < Cumulative(f, i + 1)
          /\ Weight(DeclaredWeights(f)[i + 1]) > 0
          /\ Top.origin = <<f.targets[i + 1].pos>>
  /\ LoadBalanceFailed => Cumulative(Top, Len(Top.targets)) = 0

C16Witness ==
  /\ Len(stack) = 2
  /\ stack[1].mode = "loadbalance"
  /\ DeclaredWeights(stack[1]) = <<0, -1>>
  /\ stack[1].tried = <<1>>

\* the authored positions of the children that are not marked isOpen
Healthy(a) == {k \in 0..(a.n - 1) : (k + 1) \notin a.open}

\* the authored positions of the children handed to the strategy, in order
Handed(f) == [i \in 1..Len(f.targets) |-> f.targets[i].pos]

\* the positions 0..n-1 in increasing order, less those not in keep
RECURSIVE Kept(_, _)
Kept(n, keep) ==
  IF n = 0 THEN <<>>
  ELSE IF (n - 1) \in keep THEN Append(Kept(n - 1, keep), n - 1)
  ELSE Kept(n - 1, keep)

\* C18: under a merged id the strategy is handed exactly the children not
\* marked isOpen, in their authored order, when there is one, and all the
\* children when every child is open; without an id it is handed all the
\* children, open or not.
C18 ==
  pc = "strategy" /\ Len(stack) = 1 =>
    LET a == Top.authored
    IN Handed(Top) = IF Top.id # "" /\ Healthy(a) # {}
                     THEN Kept(a.n, Healthy(a))
                     ELSE Kept(a.n, 0..(a.n - 1))

C18Witness ==
  /\ pc = "strategy"
  /\ Top.id # ""
  /\ Top.authored.n = 2
  /\ Top.authored.open = {1}
  /\ Handed(Top) = <<1>>

\* ------------------------------------------------------------------------
\* further properties of a request routed through a target tree (Spec)
\* ------------------------------------------------------------------------

\* C19 as stated: under an inherited id handleCircuitBreakerResponse is called
\* exactly once after each leaf execution, also after one that ends in a 500
\* error response, and never without an id: the notifications number the leaf
\* executions that ran under an id.
C19Original == emitted.notified = leaves.guarded

\* C20: the jsonPath passed to a child of a single, fallback or loadbalance
\* node is the parent's path followed by the position of the child in the
\* parent's authored list of children, whether or not the circuit-breaker
\* filter removed children before it.
C20 ==
  \A i \in 2..Len(stack) :
    stack[i - 1].mode \in {"single", "fallback", "loadbalance"} =>
      /\ stack[i].origin # <<>>
      /\ stack[i].jsonPath =
           Append(stack[i - 1].jsonPath, stack[i].origin[Len(stack[i].origin)])

C20Witness ==
  /\ Len(stack) = 2
  /\ stack[1].mode = "fallback"
  /\ stack[1].id # ""
  /\ stack[1].tried = <<0>>
  /\ Top.origin = <<1>>
  /\ Top.jsonPath = <<1>>

\* ------------------------------------------------------------------------
\* properties of the merge of the inherited config (SpecMerge)
\* ------------------------------------------------------------------------

\* the calls of the path whose merge has run
Merged == {k \in 1..Len(stack) : stack[k].current # NoMerge}

\* the deepest of the first k nodes of the path that satisfies P; 0 when none
Closest(k, P(_)) ==
  LET S == {j \in 1..k : P(stack[j].node)}
  IN IF S = {} THEN 0 ELSE CHOOSE j \in S : \A i \in S : i <= j

\* C21: for each scalar field of the inherited config (id, requestTimeout,
\* customHost, strictOpenAiCompliance) the merged record passed to the
\* children carries the current node's value when the node defines the field
\* (a requestTimeout of 0 is taken not to define one), and the inherited
\* value otherwise.
C21Original ==
  \A k \in Merged :
    LET t == stack[k].node
        inherited == stack[k].inheritedConfig
        current == stack[k].current
    IN /\ current.id = IF t.id # "" THEN t.id ELSE inherited.id
       /\ current.requestTimeout =
            IF t.requestTimeout > 0 THEN t.requestTimeout
            ELSE inherited.requestTimeout
       /\ current.customHost =
            IF t.customHost # "" THEN t.customHost ELSE inherited.customHost
       /\ current.strictOpenAiCompliance =
            IF t.strictOpenAiCompliance # "undefined"
            THEN t.strictOpenAiCompliance
            ELSE inherited.strictOpenAiCompliance

\* the object an optional field of the closest declaring node holds, {} when
\* no node of the first k declares the field
Retry(k) ==
  LET j == Closest(k, LAMBDA t : t.retry # Undefined)
  IN IF j = 0 THEN <<>> ELSE stack[j].node.retry[1]

Cache(k) ==
  LET j == Closest(k, LAMBDA t : t.cache # Undefined)
  IN IF j = 0 THEN <<>> ELSE stack[j].node.cache[1]

\* C22: the overrideParams of a node reached over a path hold, for each key
\* that a node of the path declares, the value of the node closest to it that
\* declares the key, and no other key; its retry and its cache are, as whole
\* objects, those of the closest ancestor-or-self that declares one, or the
\* empty object when none does.
C22 ==
  \A k \in Merged :
    LET target == stack[k].target
        params == target.overrideParams[1]
    IN /\ \A key \in {"model", "user"} :
            LET j == Closest(k, LAMBDA t :
                                  key \in DOMAIN Spread(t.overrideParams))
            IN IF j = 0 THEN key \notin DOMAIN params
               ELSE /\ key \in DOMAIN params
                    /\ params[key] = stack[j].node.overrideParams[1][key]
       /\ DOMAIN params \subseteq {"model", "user"}
       /\ target.retry = Some(Retry(k))
       /\ target.cache = Some(Cache(k))

\* a leaf at the end of a path of three nodes: the root declares retry with
\* both keys, its child a retry with attempts only, the leaf none
C22Witness ==
  /\ pc = "merged"
  /\ Len(stack) = 3
  /\ stack[1].node.retry # Undefined
  /\ DOMAIN stack[1].node.retry[1] = {"attempts", "onStatusCodes"}
  /\ stack[2].node.retry # Undefined
  /\ DOMAIN stack[2].node.retry[1] = {"attempts"}
  /\ stack[3].node.retry = Undefined
  /\ stack[3].target.retry = Some([k \in {"attempts"} |-> 2])

\* the items of a list that a node declared in the field itself, without the
\* hooks expanded from shorthand
DeclaredItems(list) ==
  SelectSeq(SpreadList(list), LAMBDA h : h.type = "declared")

\* C23: each list-valued field seen on a node reached over a path
\* (forwardHeaders, beforeRequestHooks, afterRequestHooks) holds what the
\* closest ancestor-or-self that set the field declared in it, and nothing
\* declared when no node of the path set it, also when a node declares only
\* shorthand guardrails or mutators under an ancestor that declares hooks.
C23Original ==
  \A k \in Merged :
    LET target == stack[k].target
        forward == Closest(k, LAMBDA t : t.forwardHeaders # Undefined)
        before == Closest(k, LAMBDA t : t.beforeRequestHooks # Undefined)
        after == Closest(k, LAMBDA t : t.afterRequestHooks # Undefined)
    IN /\ target.forwardHeaders =
            IF forward = 0 THEN Undefined ELSE stack[forward].node.forwardHeaders
       /\ DeclaredItems(target.beforeRequestHooks) =
            IF before = 0 THEN <<>>
            ELSE SpreadList(stack[before].node.beforeRequestHooks)
       /\ DeclaredItems(target.afterRequestHooks) =
            IF after = 0 THEN <<>>
            ELSE SpreadList(stack[after].node.afterRequestHooks)

\* ------------------------------------------------------------------------
\* determinism of the strategies (Spec)
\* ------------------------------------------------------------------------

\* what a step of a strategy can do: invoke the child at `index` of the
\* targets it was given under the jsonPath ending in `position`, return a
\* response (the last child's, or the 500 made of its own error), or throw
StrategyOutcomes ==
  {[do |-> "invoke", index |-> i, position |-> k, response |-> NoResp] :
     i \in 0..(MaxTargets - 1), k \in 0..(MaxTargets - 1)}
  \cup {[do |-> "return", index |-> 0, position |-> 0, response |-> r] :
          r \in {resp, HandleTargetRecursionError("Error")}}
  \cup {[do |-> "throw", index |-> 0, position |-> 0, response |-> NoResp]}

\* the step from the current state has outcome o
StrategyOutcome(o) ==
  CASE o.do = "invoke" ->
         /\ pc' = "resolve"
         /\ Len(stack') = Len(stack) + 1
         /\ stack'[Len(stack)].tried # <<>>
         /\ stack'[Len(stack)].tried[Len(stack'[Len(stack)].tried)] = o.index
         /\ stack'[Len(stack')].jsonPath = Append(Top.jsonPath, o.position)
    [] o.do = "return" -> pc' = "returned" /\ resp' = o.response
    [] o.do = "throw" -> pc' = "thrown"

\* C24: at every point where single or fallback decides, given the targets,
\* the responses returned so far and the verdicts on them, exactly one outcome
\* is possible (the child invoked with its jsonPath, or the response
\* returned); where conditional decides, the child invoked and its jsonPath
\* are fixed by the router's selection.
C24 ==
  /\ (pc \in {"strategy", "fallbackLoop"} /\ Top.mode \in {"single", "fallback"})
       => Cardinality({o \in StrategyOutcomes :
                         ENABLED (Next /\ StrategyOutcome(o))}) = 1
  /\ (pc = "strategy" /\ Top.mode = "conditional")
       => \A index \in 0..(MaxTargets - 1) :
            Cardinality({o \in StrategyOutcomes :
                           /\ o.do = "invoke"
                           /\ o.index = index
                           /\ ENABLED (Next /\ StrategyOutcome(o))}) <= 1

\* a fallback over two children whose first child returned a response on
\* which the loop goes on
C24Witness ==
  /\ pc = "fallbackLoop"
  /\ Top.mode = "fallback"
  /\ Len(Top.targets) = 2
  /\ Top.tried = <<0>>
  /\ Top.stops = <<FALSE>>
  /\ ENABLED (Next /\ StrategyOutcome([do |-> "invoke", index |-> 1,
                                       position |-> 1, response |-> NoResp]))

\* ------------------------------------------------------------------------
\* properties of the header processor (SpecHeaders)
\* ------------------------------------------------------------------------

\* C25: post-processing is idempotent: applied to its own result, under the
\* same method, endpoint and client headers, it changes nothing.
C25 ==
  [][(pc = "postProcessed" /\ pc' = "postProcessedTwice")
       => headers' = headers]_vars

\* an uploadFile request whose multipart content type was replaced by the
\* client's under Content-Type, post-processed a second time
C25Witness ==
  /\ pc = "postProcessedTwice"
  /\ requestContext.endpoint = "uploadFile"
  /\ requestContext.method = "POST"
  /\ "content-type" \notin DOMAIN headers
  /\ "Content-Type" \in DOMAIN headers
  /\ FILE_PURPOSE \in DOMAIN headers

\* the last of the sources that has key k; 0 when none has it
LatestSource(k) ==
  LET S == {j \in 1..4 : k \in DOMAIN HeaderSources[j]}
  IN IF S = {} THEN 0 ELSE CHOOSE j \in S : \A i \in S : i <= j

\* C26: before post-processing, every key of the final headers has the value
\* of the latest of the sources Base, Provider (keys lowercased), Forward
\* list, Proxy passthrough that has the key, and the final headers have the
\* keys of the sources and no other.
C26 ==
  pc = "merged"
    => /\ DOMAIN headers = UNION {DOMAIN HeaderSources[j] : j \in 1..4}
       /\ \A k \in DOMAIN headers :
            headers[k] = HeaderSources[LatestSource(k)][k]

\* a proxy request whose forwarded x-custom replaced the provider's, whose
\* provider content type replaced the base one, and whose authorization
\* came from the provider alone
C26Witness ==
  /\ pc = "merged"
  /\ requestContext.endpoint = "proxy"
  /\ "x-custom" \in DOMAIN HeaderSources[2]
  /\ "x-custom" \in DOMAIN HeaderSources[3]
  /\ headers["x-custom"] = "client"
  /\ "content-type" \in DOMAIN HeaderSources[2]
  /\ headers["content-type"] = "text/plain"
  /\ LatestSource("authorization") = 2

\* ------------------------------------------------------------------------
\* properties of the configuration builder (SpecConfig)
\* ------------------------------------------------------------------------

\* C27: the configuration built from the serialized first output, fed back
\* as x-portkey-config with the same default-guardrail headers, equals the
\* first output after camelCase normalization with the excluded keys kept.
C27Original ==
  pc = "rebuilt"
    => Parse(Stringify(
         ConvertKeysToCamelCase(config, CAMEL_CASE_EXCLUSIONS))) =
       ConvertKeysToCamelCase(
         Parse(requestContext.requestHeaders[CONFIG_HEADER]),
         CAMEL_CASE_EXCLUSIONS)

\* ------------------------------------------------------------------------
\* errors of the before-request hooks and the bound of the hook loop (SpecLeaf)
\* ------------------------------------------------------------------------

\* C29: when the hook runtime throws in the before-request hooks the error
\* is swallowed: the step produces no response (no 446, no 500), logs
\* nothing, leaves the parameters untransformed and hands over to the provider
\* transformation, as the step of hooks that pass does; the execution never
\* takes the early-response path afterwards.
C29 ==
  /\ [][(pc = "beforeHooks" /\ brh' = "error")
          => /\ pc' = "prepare"
             /\ resp' = NoResp
             /\ err' = ""
             /\ phases' = Append(phases, "beforeHooks")
             /\ UNCHANGED <<treeVars, made, attempt, skip, upstream, arh,
                            logs, fetches>>]_vars
  /\ [](brh = "error" => /\ pc # "early"
                         /\ resp.kind # "hooks_failed"
                         /\ pc = "prepare" => resp = NoResp)

\* the hook runtime threw and the execution went through the provider
\* transformation, the cache lookup, the validation and the upstream fetch
C29Witness ==
  /\ brh = "error"
  /\ pc = "posted"
  /\ resp.kind = "upstream"
  /\ {"transform", "cache", "validate", "fetch"} \subseteq Phases
  /\ fetches > 0

\* a step of the hook loop in which neither the response handler nor the
\* after-request hooks threw
HookLoopStep == pc = "afterHooks" /\ pc' # "rejected"

\* C30: the hook loop recurses exactly when retry.attempts - attempt -
\* attemptsAlreadyMade is positive, the engine did not skip and the
\* hook-mapped status is in retry.onStatusCodes, and passes attempt + 1 +
\* attemptsAlreadyMade; attemptsAlreadyMade strictly increases with every
\* recursion, there are at most retry.attempts recursions, and a started loop
\* ends: with a result, or with the error of a handler or hook that threw.
C30 ==
  /\ [][HookLoopStep =>
          /\ RetryRecursion <=> /\ retry.attempts - attempt - made > 0
                                /\ ~skip
                                /\ arh' \in retry.onStatusCodes
          /\ RetryRecursion => /\ made' = attempt + 1 + made
                               /\ made' > made
          /\ ~RetryRecursion => pc' = "mainResponse" /\ resp'.status = arh'
                                /\ made' = made]_vars
  /\ [](/\ made <= retry.attempts
        /\ Count(logs, "intermediate") <= made)
  /\ (pc = "main") ~> (pc \in {"mainResponse", "rejected"})

\* the loop recursed retry.attempts times, each time after an engine call
\* that made no retry of its own, and then returned its result
C30Witness ==
  /\ pc = "mainResponse"
  /\ retry.attempts = MaxAttempts
  /\ made = retry.attempts
  /\ Count(logs, "intermediate") = retry.attempts
  /\ resp.status = arh

\* C31: the retryCount the hook loop returns is RETRY_ATTEMPT_EXHAUSTED or a
\* value in 0..retry.attempts, whatever the retry engine reported (attempt in
\* 0..retry.attempts) and whatever status the hooks mapped.
C31Original ==
  Terminated =>
    \/ resp.retryAttempt = RETRY_ATTEMPT_EXHAUSTED
    \/ resp.retryAttempt \in 0..retry.attempts

\* ------------------------------------------------------------------------
\* default guardrails and shorthand along a path (SpecMerge)
\* ------------------------------------------------------------------------

\* C32: the default guardrails are expanded by the root call only, the one
\* call whose inheritedConfig is empty; every descendant, whatever it
\* declares, has as defaultInputGuardrails and defaultOutputGuardrails the
\* lists the root call expanded, with the same hooks.
C32 ==
  \A k \in 1..Len(stack) :
    /\ stack[k].inheritedConfig = EmptyInherited <=> k = 1
    /\ k \in Merged =>
         /\ stack[k].current.defaultInputGuardrails =
              Some(ConvertHooksShorthand(
                     stack[1].node.defaultInputGuardrails[1],
                     "input", "guardrail"))
         /\ stack[k].current.defaultOutputGuardrails =
              Some(ConvertHooksShorthand(
                     stack[1].node.defaultOutputGuardrails[1],
                     "output", "guardrail"))
         /\ stack[k].target.defaultInputGuardrails =
              stack[1].current.defaultInputGuardrails
         /\ stack[k].target.defaultOutputGuardrails =
              stack[1].current.defaultOutputGuardrails

\* a grandchild that declares default guardrails of its own, below a child
\* that declares none, holds the root's expanded lists
C32Witness ==
  /\ Len(stack) = 3
  /\ 3 \in Merged
  /\ stack[1].node.defaultInputGuardrails =
       Some(<<Item("defaultInputGuardrails", 1)>>)
  /\ stack[2].node.defaultInputGuardrails = Undefined
  /\ stack[3].node.defaultInputGuardrails =
       Some(<<Item("defaultInputGuardrails", 3)>>)
  /\ stack[3].node.defaultOutputGuardrails = Some(<<>>)
  /\ stack[3].target.defaultInputGuardrails =
       Some(<<[type |-> "guardrail", id |-> "input", at |-> 1,
               checks |-> "defaultInputGuardrails"]>>)

\* list is declared followed by one hook of type "guardrail" per entry of
\* guardrails and then one hook of type "mutator" per entry of mutators, each
\* made of its entry, in the order of the entries
Normalized(list, declared, guardrails, mutators) ==
  LET d == Len(SpreadList(declared))
      g == Len(SpreadList(guardrails))
      m == Len(SpreadList(mutators))
  IN /\ list # Undefined
     /\ Len(list[1]) = d + g + m
     /\ \A i \in 1..d : list[1][i] = declared[1][i]
     /\ \A i \in 1..g : /\ list[1][d + i].type = "guardrail"
                        /\ list[1][d + i].checks = guardrails[1][i].id
                        /\ list[1][d + i].at = guardrails[1][i].at
     /\ \A i \in 1..m : /\ list[1][d + g + i].type = "mutator"
                        /\ list[1][d + g + i].checks = mutators[1][i].id
                        /\ list[1][d + g + i].at = mutators[1][i].at

\* C33: a node that declares hooks or shorthand has as beforeRequestHooks its
\* declared beforeRequestHooks, then its expanded inputGuardrails, then its
\* expanded inputMutators, and as afterRequestHooks its declared
\* afterRequestHooks, then its expanded outputGuardrails, then its expanded
\* outputMutators: every hook and every shorthand entry once, in its order.
C33 ==
  \A k \in Merged :
    LET node == stack[k].node
        target == stack[k].target
    IN /\ {node.beforeRequestHooks, node.inputGuardrails,
           node.inputMutators} # {Undefined}
            => Normalized(target.beforeRequestHooks, node.beforeRequestHooks,
                          node.inputGuardrails, node.inputMutators)
       /\ {node.afterRequestHooks, node.outputGuardrails,
           node.outputMutators} # {Undefined}
            => Normalized(target.afterRequestHooks, node.afterRequestHooks,
                          node.outputGuardrails, node.outputMutators)

\* a child with one declared hook, two input guardrails and one input
\* mutator, under a root that declares hooks of its own
C33Witness ==
  /\ Len(stack) = 2
  /\ 2 \in Merged
  /\ stack[1].node.beforeRequestHooks # Undefined
  /\ stack[2].node.beforeRequestHooks # Undefined
  /\ stack[2].node.inputMutators # Undefined
  /\ stack[2].node.inputGuardrails # Undefined
  /\ Len(SpreadList(stack[2].target.beforeRequestHooks)) = 4

\* ------------------------------------------------------------------------
\* errors of the main execution and of the strategies (Spec)
\* ------------------------------------------------------------------------

\* C34: when the response handler or the after-request hooks throw, the
\* leaf issues no further upstream fetch and logs nothing, its call ends with
\* a 500 failure response that carries the gateway-exception header, and a
\* fallback node that receives such a response tries no further child and
\* returns it.
C34 ==
  /\ [][(pc = "afterHooks" /\ pc' = "rejected")
          => fetches' = fetches /\ logs' = logs /\ err' \in ErrorKinds]_vars
  /\ [][pc = "rejected"
          => /\ pc' = "returned"
             /\ resp'.status = INTERNAL_SERVER_ERROR
             /\ resp'.gwex = "true"
             /\ resp'.kind = "failure"
             /\ stack' = stack]_vars
  /\ [][(/\ pc = "returned"
         /\ resp.kind = "failure"
         /\ resp.gwex = "true"
         /\ Len(stack) > 1
         /\ stack[Len(stack) - 1].mode = "fallback")
          => /\ pc' = "fallbackLoop"
             /\ Len(stack') = Len(stack) - 1
             /\ stack'[Len(stack')].stops # <<>>
             /\ stack'[Len(stack')].stops[Len(stack'[Len(stack')].stops)]
             /\ stack'[Len(stack')].last = resp
             /\ resp' = resp]_vars
  /\ [][(pc = "fallbackLoop" /\ Top.last.kind = "failure"
         /\ Top.last.gwex = "true")
          => pc' = "returned" /\ resp' = Top.last /\ stack' = stack]_vars

\* the after-request hooks of the first child of a fallback node threw on
\* the first response, with retry budget and a second child left
C34Witness ==
  /\ pc = "rejected"
  /\ phases # <<>>
  /\ phases[Len(phases)] = "afterHooks"
  /\ arh = 0
  /\ fetches = 1
  /\ retry.attempts - attempt - made > 0
  /\ Len(stack) > 1
  /\ stack[Len(stack) - 1].mode = "fallback"
  /\ stack[Len(stack) - 1].tried = <<0>>
  /\ Len(stack[Len(stack) - 1].targets) = 2

\* C35: a single or fallback node that is handed an empty list of children
\* invokes no child and no leaf; its strategy raises and the call returns a
\* 500 failure response with the gateway-exception header and the message
\* 'Something went wrong'.
C35 ==
  [][(/\ pc = "strategy"
      /\ Top.mode \in {"single", "fallback"}
      /\ Top.targets = <<>>)
       => /\ pc' = "returned"
          /\ stack' = stack
          /\ resp' = [status |-> INTERNAL_SERVER_ERROR, gwex |-> "true",
                      kind |-> "failure", msg |-> SOMETHING_WENT_WRONG,
                      retryAttempt |-> 0]
          /\ UNCHANGED <<leaves, emitted, fetches, logs>>]_vars

\* a fallback node without children, the only child of a single node, has
\* returned the 500 and no leaf has run
C35Witness ==
  /\ pc = "returned"
  /\ Len(stack) = 2
  /\ stack[1].mode = "single"
  /\ Top.mode = "fallback"
  /\ Top.targets = <<>>
  /\ Top.tried = <<>>
  /\ resp.status = INTERNAL_SERVER_ERROR
  /\ resp.msg = SOMETHING_WENT_WRONG
  /\ leaves.outcome + leaves.failed = 0

\* ------------------------------------------------------------------------
\* proxy passthrough (SpecHeaders)
\* ------------------------------------------------------------------------

\* the client headers the passthrough must leave alone under the request
\* context: all of them unless the endpoint is proxy, and for proxy those
\* named in CUSTOM_HEADERS_TO_IGNORE, expect, content-length and those whose
\* name starts with x-portkey-
NotPassedThrough ==
  {k \in DOMAIN requestContext.requestHeaders :
     \/ requestContext.endpoint # "proxy"
     \/ k \in requestContext.customHeadersToIgnore
     \/ k \in {"expect", "content-length"}
     \/ IsPoweredBy(k)}

\* C36: the passthrough copies client headers only for the endpoint proxy,
\* and never a header named in CUSTOM_HEADERS_TO_IGNORE, expect,
\* content-length or one whose name starts with x-portkey-: such a header is
\* among the merged headers only when the base, provider or forward-list
\* source has it, and then with the value of the latest of these.
C36 ==
  pc = "merged" =>
    \A k \in NotPassedThrough :
      LET S == {j \in 1..3 : k \in DOMAIN HeaderSources[j]}
      IN /\ k \in DOMAIN headers => S # {}
         /\ S # {} => headers[k] =
              HeaderSources[CHOOSE j \in S : \A i \in S : i <= j][k]

\* a proxy request whose x-custom header is named in CUSTOM_HEADERS_TO_IGNORE
\* and not forwarded, whose expect, content-length and
\* x-portkey-file-purpose headers are dropped too, and whose content type is
\* passed through
C36Witness ==
  /\ pc = "merged"
  /\ requestContext.endpoint = "proxy"
  /\ requestContext.customHeadersToIgnore = {"x-custom"}
  /\ {"x-custom", "expect", "content-length", FILE_PURPOSE, "content-type"}
       \subseteq DOMAIN requestContext.requestHeaders
  /\ requestContext.forwardHeaders = <<>>
  /\ requestContext.providerConfigMappedHeaders = <<>>
  /\ DOMAIN headers = {"content-type"}
  /\ headers["content-type"] = requestContext.requestHeaders["content-type"]

\* ------------------------------------------------------------------------
\* the outgoing body (SpecRequest)
\* ------------------------------------------------------------------------

\* C37: the body of the fetch options is chosen by the priority multipart
\* (the transformed body as form data), then a stream as original body (the
\* stream itself), then proxy audio (the transformed body as bytes), then
\* JSON when the client's content type is set, then none; GET and DELETE
\* requests have no body; duplex is "half" exactly for the endpoint
\* uploadFile.
C37 ==
  pc = "constructed" =>
    LET ctx == requestContext
        p == ShouldProcessRequestBody(ctx)
        isStream == ctx.requestBody = "ReadableStream"
        isSet == ctx.requestContentType # UndefinedValue
        body == fetchOptions.body
    IN /\ ctx.method \in {"GET", "DELETE"} => body = Undefined
       /\ ctx.method \notin {"GET", "DELETE"} =>
            /\ p.isMultiPartRequest =>
                 body = Some(BodyInit("FormData", ctx.transformedRequestBody))
            /\ ~p.isMultiPartRequest /\ isStream =>
                 body = Some(BodyInit("ReadableStream", ctx.requestBody))
            /\ ~p.isMultiPartRequest /\ ~isStream /\ p.isProxyAudio =>
                 body = Some(BodyInit("ArrayBuffer",
                                      ctx.transformedRequestBody))
            /\ ~p.isMultiPartRequest /\ ~isStream /\ ~p.isProxyAudio /\ isSet =>
                 body = Some(BodyInit("JSON", ctx.transformedRequestBody))
            /\ ~p.isMultiPartRequest /\ ~isStream /\ ~p.isProxyAudio /\ ~isSet
                 => body = Undefined
       /\ fetchOptions.duplex = Some("half") <=> ctx.endpoint = "uploadFile"
       /\ fetchOptions.duplex \in {Some("half"), Undefined}

\* a streamed multipart upload: the body is the transformed form data, not
\* the stream, and duplex is set
C37Witness ==
  /\ pc = "constructed"
  /\ requestContext.method = "POST"
  /\ requestContext.endpoint = "uploadFile"
  /\ requestContext.requestBody = "ReadableStream"
  /\ requestContext.headerContentType = MULTIPART_FORM_DATA
  /\ fetchOptions.body =
       Some(BodyInit("FormData", requestContext.transformedRequestBody))
  /\ fetchOptions.duplex = Some("half")

\* ------------------------------------------------------------------------
\* the two paths of the config builder (SpecConfig)
\* ------------------------------------------------------------------------

\* the headers enrichment reads
EnrichmentHeaders ==
  {"x-portkey-provider", "authorization", "x-portkey-mistral-fim-completion"}

\* the configuration built from the request's headers once the headers
\* enrichment reads are taken away
BuiltWithoutEnrichmentHeaders ==
  Build(Restrict(requestContext.requestHeaders,
                 DOMAIN requestContext.requestHeaders \ EnrichmentHeaders))

\* C38: when x-portkey-config is present and the parsed object specifies a
\* provider or targets, nothing is taken from x-portkey-provider,
\* authorization or the provider-specific headers: the configuration is the
\* one built without them, so these headers change the result only when the
\* parsed object specifies neither; when x-portkey-config is absent the
\* result is the flat options built from the individual headers.
C38 ==
  pc \in {"built", "rebuilt"} =>
    LET h == requestContext.requestHeaders
    IN /\ (/\ CONFIG_HEADER \in DOMAIN h
           /\ config # BuiltWithoutEnrichmentHeaders)
            => /\ ~Truthy(Parse(h[CONFIG_HEADER]), "provider")
               /\ ~Truthy(Parse(h[CONFIG_HEADER]), "targets")
       /\ CONFIG_HEADER \notin DOMAIN h =>
            config =
              {<<(<<"provider">>),
                 HeaderOr(h, "x-portkey-provider", UndefinedValue)>>,
               <<(<<"apiKey">>), ApiKey(h)>>,
               <<(<<"defaultInputGuardrails">>),
                 HeaderOr(h, "x-portkey-default-input-guardrails", "[]")>>,
               <<(<<"defaultOutputGuardrails">>),
                 HeaderOr(h, "x-portkey-default-output-guardrails", "[]")>>}
              \cup {<<(<<"mistralFimCompletion">>), h[k]>> :
                      k \in DOMAIN h \cap {"x-portkey-mistral-fim-completion"}}

\* a request whose config header names a provider and a key of its own and
\* which carries all the individual headers too: the built configuration has
\* the authored key and no field of the mistral header
C38Witness ==
  /\ pc = "built"
  /\ CONFIG_HEADER \in DOMAIN requestContext.requestHeaders
  /\ EnrichmentHeaders \subseteq DOMAIN requestContext.requestHeaders
  /\ Truthy(Parse(requestContext.requestHeaders[CONFIG_HEADER]), "provider")
  /\ <<(<<"apiKey">>), "authored">> \in config
  /\ \A leaf \in config : leaf[1][1] # "mistralFimCompletion"

\* a request whose config header holds targets and no provider, with all the
\* individual headers: no provider and no key is added at the top
C38WitnessTargets ==
  /\ pc = "built"
  /\ CONFIG_HEADER \in DOMAIN requestContext.requestHeaders
  /\ EnrichmentHeaders \subseteq DOMAIN requestContext.requestHeaders
  /\ Truthy(Parse(requestContext.requestHeaders[CONFIG_HEADER]), "targets")
  /\ \A leaf \in config : leaf[1][1] \notin {"provider", "apiKey"}

\* ------------------------------------------------------------------------
\* the status codes a fallback consults (SpecStop)
\* ------------------------------------------------------------------------

\* C39: after a child's response a fallback node consults the child's own
\* strategy.onStatusCodes, whatever onStatusCodes the fallback node itself
\* declares: it stops exactly when the child's list is an array without the
\* status, or the child has no list and the response is ok, or the response
\* carries the gateway-exception header; so after a child without strategy
\* it goes on exactly on a non-ok response without that header.
C39 ==
  pc = "stopDecided" =>
    LET f == stack[1]
        stopped == f.stops[1]
    IN /\ stopped <=>
            \/ f.codes.tag = "array" /\ resp.status \notin f.codes.set
            \/ f.codes.tag = "absent" /\ resp.status \in 200..299
            \/ resp.gwex = "true"
       /\ f.codes = AbsentCodes =>
            (~stopped <=> /\ resp.status \notin 200..299
                          /\ resp.gwex # "true")

\* a fallback node that lists 500 itself goes on after the 500 of a child
\* without strategy, and one that lists nothing of its own stops after the
\* 500 of a child that lists 200
C39Witness ==
  /\ pc = "stopDecided"
  /\ resp.status = 500
  /\ resp.gwex # "true"
  /\ \/ /\ stack[1].codes = AbsentCodes
        /\ stack[1].onStatusCodes = [tag |-> "array", set |-> {200}]
        /\ ~stack[1].stops[1]
     \/ /\ stack[1].codes = [tag |-> "array", set |-> {200}]
        /\ stack[1].onStatusCodes = [tag |-> "array", set |-> {500}]
        /\ stack[1].stops[1]

\* ------------------------------------------------------------------------
\* the circuit-breaker notification (Spec)
\* ------------------------------------------------------------------------

====
